---------------------------- MODULE Spec2Model ----------------------------
(***************************************************************************)
(* A model of the CIF reader and writer of package cif: the scanner        *)
(* (lexer.go and the state functions), the document builder (parse.go) and *)
(* the writer (write.go).                                                  *)
(*                                                                         *)
(* Text is a sequence of one-character strings.  A control character is    *)
(* written "^A", the backquote "bq", the end of input rune (0) eof.        *)
(***************************************************************************)
EXTENDS Integers, Sequences, FiniteSets, TLC

(***************************************************************************)
(* Characters and character classes.                                       *)
(***************************************************************************)
eof == "EOF"
tagPrefix == "_"
commentStart == "#"
dataOmitted == "."
dataMissing == "?"

UpperLetters == <<"A","B","C","D","E","F","G","H","I","J","K","L","M",
                  "N","O","P","Q","R","S","T","U","V","W","X","Y","Z">>
LowerLetters == <<"a","b","c","d","e","f","g","h","i","j","k","l","m",
                  "n","o","p","q","r","s","t","u","v","w","x","y","z">>
Digits == {"0","1","2","3","4","5","6","7","8","9"}
UpperSet == {UpperLetters[i] : i \in 1..26}
LowerSet == {LowerLetters[i] : i \in 1..26}
OrdinaryPunct == {"!","%","&","(",")","*","+",",","-",".","/",":","<",
                  "=",">","?","@","\\","^","bq","{","|","}","~"}
OrdinaryChars == UpperSet \cup LowerSet \cup Digits \cup OrdinaryPunct
LowerOf == [c \in UpperSet |-> LowerLetters[CHOOSE i \in 1..26 : UpperLetters[i] = c]]

isOrdinaryChar(r) == r \in OrdinaryChars

isNonBlankChar(r) ==
    isOrdinaryChar(r) \/ r \in {"\"", "#", "$", "'", "_", ";", "[", "]"}

isTextLeadChar(r) ==
    isOrdinaryChar(r) \/ r \in {"\"", "#", "$", "'", "_", " ", "\t", "[", "]"}

isPrintChar(r) == isTextLeadChar(r) \/ r = ";"

isNL(r) == r = "\n" \/ r = "\r"

isWhiteSpace(r) == r = " " \/ r = "\t" \/ isNL(r)

isDigit(r) == r \in Digits

\* strings.ToLower on one character and on a text
ToLowerChar(c) == IF c \in UpperSet THEN LowerOf[c] ELSE c
\* ToLower left out
ToLowerKeep(s) == s
ToLower(s) == [i \in 1..Len(s) |-> ToLowerChar(s[i])]

\* the predicate a name of the package-level variable pred stands for
ApplyPred(p, r) ==
    CASE p = "isNonBlankChar" -> isNonBlankChar(r)
      [] p = "isPrintChar"    -> isPrintChar(r)
      [] OTHER                -> FALSE

(***************************************************************************)
(* The lexer (lexer.go).  A lexer is a record; pos and start count the     *)
(* characters before them, as in the code, so the character at pos is      *)
(* input[pos+1].  pred is the package-level variable the chars states      *)
(* read, item the item the package-level variable emitted points to, which *)
(* emit fills and lx.emitted then points to: emitted holds what is read    *)
(* through lx.emitted, NoItem for nil; panicked records the panic of emit, *)
(* underflow that pop was called with no state on the stack.               *)
(***************************************************************************)
NoItem == [typ |-> "nil", val |-> <<>>, line |-> 0]

lex(input) ==
    [input |-> input, start |-> 0, pos |-> 0, width |-> 0, line |-> 1,
     state |-> "lexCifInitial", emitted |-> NoItem, stack |-> <<>>,
     pred |-> "none", item |-> NoItem, panicked |-> FALSE,
     underflow |-> FALSE]

Goto(lx, st) == [lx EXCEPT !.state = st]

push(lx, st) == [lx EXCEPT !.stack = Append(@, st)]

current(lx) == SubSeq(lx.input, lx.start + 1, lx.pos)

\* errf: the error item replaces whatever is pending and the state returned is nil
errf(lx, msg) ==
    [lx EXCEPT !.emitted = [typ |-> "Error", val |-> <<msg>>, line |-> lx.line],
               !.state = "nil"]

\* pop: the state popped, and the lexer after the pop
popState(lx) ==
    IF Len(lx.stack) = 0 THEN "nil" ELSE lx.stack[Len(lx.stack)]
pop(lx) ==
    IF Len(lx.stack) = 0
    THEN [errf(lx, "BUG in lexer: no states to pop.")
             EXCEPT !.state = lx.state, !.underflow = TRUE]
    ELSE [lx EXCEPT !.stack = SubSeq(@, 1, Len(@) - 1)]
\* return lx.pop()
ReturnPop(lx) == Goto(pop(lx), popState(lx))

emit(lx, typ) ==
    IF lx.emitted # NoItem
    THEN [lx EXCEPT !.panicked = TRUE]
    ELSE [lx EXCEPT !.emitted = [typ |-> typ, val |-> current(lx), line |-> lx.line],
                    !.item = [typ |-> typ, val |-> current(lx), line |-> lx.line],
                    !.start = lx.pos]

\* next: the rune read, and the lexer after the read
nextRune(lx) ==
    IF lx.pos >= Len(lx.input) THEN eof ELSE lx.input[lx.pos + 1]
next(lx) ==
    IF lx.pos >= Len(lx.input)
    THEN [lx EXCEPT !.width = 0]
    ELSE [lx EXCEPT !.line = IF lx.input[lx.pos + 1] = "\n" THEN @ + 1 ELSE @,
                    !.width = 1,
                    !.pos = @ + 1]

ignore(lx) == [lx EXCEPT !.start = lx.pos]

backup(lx) ==
    LET p == lx.pos - lx.width
    IN  [lx EXCEPT !.pos = p,
                   !.line = IF p < Len(lx.input) /\ lx.input[p + 1] = "\n"
                            THEN @ - 1 ELSE @]

acceptOk(lx, valid) == nextRune(lx) = valid
accept(lx, valid) ==
    IF nextRune(lx) = valid THEN next(lx) ELSE backup(next(lx))

peek(lx) == IF lx.pos >= Len(lx.input) THEN eof ELSE lx.input[lx.pos + 1]

Min(a, b) == IF a < b THEN a ELSE b

peekAt(lx, length) ==
    IF lx.pos >= Len(lx.input) THEN <<>>
    ELSE SubSeq(lx.input, lx.pos + 1, Min(lx.pos + length, Len(lx.input)))

aheadMatch(lx, s) == peekAt(lx, Len(s)) = s

\* acceptStr: accept the runes of s in turn, fail on the first that differs
RECURSIVE acceptStr(_, _, _)
acceptStr(lx, s, nextState) ==
    IF s = <<>> THEN Goto(ignore(lx), nextState)
    ELSE IF ~acceptOk(lx, Head(s))
         THEN errf(accept(lx, Head(s)), "Expected '%s' but got '%s' instead (in '%s').")
         ELSE acceptStr(accept(lx, Head(s)), Tail(s), nextState)

stop(lx) == Goto(emit(ignore(lx), "EOF"), "nil")

\* chars sets the package-level pred and names the state that consumes
chars(lx, oneOrMore, predFn) ==
    Goto([lx EXCEPT !.pred = predFn], IF oneOrMore THEN "lexOneOrMore" ELSE "lexPred")


(***************************************************************************)
(* The scanner's states.  Each takes the lexer and gives the lexer after   *)
(* the call, its state field being the state function the call returns.    *)
(***************************************************************************)
kwData == <<"d","a","t","a","_">>
kwSave == <<"s","a","v","e","_">>
kwLoop == <<"l","o","o","p","_">>
kwStop == <<"s","t","o","p","_">>
kwGlobal == <<"g","l","o","b","a","l","_">>
versionLetters == <<"\\","#","C","I","F","_","1",".","1">>

\* lexSpaceOrEof(lx, next)
lexSpaceOrEof(lx, nextState) == Goto(push(lx, nextState), "lexSpaceOrEofContinue")

\* lexWhiteSpace(lx, nextState), its argument already evaluated
lexWhiteSpace(lx, nextState) ==
    IF ~isWhiteSpace(nextRune(lx))
    THEN errf(next(lx), "Expected white space, but got '%s' instead.")
    ELSE Goto(push(next(lx), nextState), "lexWhiteSpaceContinue")

lexCifInitial(lx) ==
    IF nextRune(lx) = commentStart
    THEN Goto(next(lx), "lexVersion")
    ELSE Goto(backup(next(lx)), "lexCif")

lexCif(lx) ==
    LET r == peek(lx)
        s == peekAt(lx, 5)
    IN  IF r = eof THEN stop(lx)
        ELSE IF r = commentStart \/ isWhiteSpace(r)
        THEN Goto(ignore(push(lx, "lexCif")), "lexWhiteSpaceContinue")
        ELSE IF ToLower(s) = kwData
        THEN acceptStr(chars(push(lx, "lexDataBlockHeading"), TRUE, "isNonBlankChar"),
                       s, "lexOneOrMore")
        ELSE Goto(lx, "nil")

lexDataBlockHeading(lx) ==
    lexSpaceOrEof(emit(lx, "DataBlockStart"), "lexDataBlocks")

lexSaveFrameHeading(lx) ==
    lexWhiteSpace(emit(lx, "SaveFrameStart"), "lexFirstSaveDataItem")

lexSaveFrameEnd(lx) ==
    LET s == peekAt(lx, 5)
    IN  IF ToLower(s) = kwSave
        THEN acceptStr(push(emit(lx, "SaveFrameEnd"), "lexDataBlocks"),
                       s, "lexSpaceOrEofContinue")
        ELSE errf(lx, "Expected 'save_' at end of save frame, but got '%s' instead.")

lexDataBlocks(lx) ==
    LET r == peek(lx)
        s == peekAt(lx, 5)
    IN  IF isWhiteSpace(r) THEN lexWhiteSpace(lx, "lexDataBlocks")
        ELSE IF r = eof THEN stop(lx)
        ELSE IF aheadMatch(lx, kwGlobal)
        THEN errf(lx, "global_ is not supported in the CIF format.")
        ELSE IF aheadMatch(lx, kwStop)
        THEN errf(lx, "stop_ is not supported in the CIF format.")
        ELSE IF ToLower(s) = kwData
        THEN acceptStr(chars(push(lx, "lexDataBlockHeading"), TRUE, "isNonBlankChar"),
                       s, "lexOneOrMore")
        ELSE IF ToLower(s) = kwSave
        THEN acceptStr(chars(push(lx, "lexSaveFrameHeading"), TRUE, "isNonBlankChar"),
                       s, "lexOneOrMore")
        ELSE Goto(push(lx, "lexDataBlocks"), "lexDataItem")

lexFirstSaveDataItem(lx) == Goto(push(lx, "lexSaveDataItems"), "lexDataItem")

\* the body of a save frame scanned as the body of a data block is
lexSaveDataItemsAsBlock(lx) == lexDataBlocks(lx)

lexSaveDataItems(lx) ==
    IF aheadMatch(lx, kwSave) THEN lexSaveFrameEnd(lx)
    ELSE IF peek(lx) = tagPrefix \/ aheadMatch(lx, kwLoop)
    THEN Goto(push(lx, "lexSaveDataItems"), "lexDataItem")
    ELSE errf(lx, "Expected either a data item or the end of a save frame, but got '%s' instead.")

lexDataItem(lx) ==
    LET s == peekAt(lx, 5)
    IN  IF ToLower(s) = kwLoop
        THEN acceptStr(emit(ignore(lx), "Loop"), s, "lexLoopStartWhiteSpace")
        ELSE IF nextRune(lx) # tagPrefix
        THEN errf(next(lx), "Expected data item name starting with '%s' but got '%s' instead.")
        ELSE chars(push(push(ignore(next(lx)), "lexValue"), "lexDataTag"),
                   TRUE, "isNonBlankChar")

lexLoopStartWhiteSpace(lx) == lexWhiteSpace(lx, "lexLoopStart")

lexLoopStart(lx) ==
    IF nextRune(lx) # tagPrefix
    THEN errf(next(lx), "Every 'loop_' section must have at least one data tag defined (starting with a '_'), but found '%s' instead.")
    ELSE chars(push(push(ignore(next(lx)), "lexLoopTags"), "lexDataTag"),
               TRUE, "isNonBlankChar")

lexLoopStartValue(lx) == Goto(push(lx, "lexLoopValues"), "lexValue")

lexLoopTags(lx) ==
    IF peek(lx) = tagPrefix
    THEN chars(push(push(ignore(next(lx)), "lexLoopTags"), "lexDataTag"),
               TRUE, "isNonBlankChar")
    ELSE Goto(lx, "lexLoopStartValue")

lexLoopValues(lx) ==
    LET r == peek(lx)
        pk == peekAt(lx, 5)
    IN  IF r = tagPrefix THEN ReturnPop(lx)
        ELSE IF r \in {"d", "s", "l"} /\ pk \in {kwData, kwSave, kwLoop}
        THEN ReturnPop(lx)
        ELSE IF r = eof THEN stop(lx)
        ELSE Goto(push(lx, "lexLoopValues"), "lexValue")

\* lexDataTag stopping by itself at the end of the input, its tag still
\* pending
lexDataTagStop(lx) ==
    LET e == emit(lx, "DataTag")
    IN  IF peek(e) = eof THEN stop(e) ELSE lexWhiteSpace(pop(e), popState(e))

\* lexWhiteSpace(lx, lx.pop()): the pop is evaluated first
lexDataTag(lx) ==
    LET e == emit(lx, "DataTag")
    IN  lexWhiteSpace(pop(e), popState(e))

lexOneOrMore(lx) ==
    IF ~ApplyPred(lx.pred, nextRune(lx))
    THEN errf(next(lx), "Expected at least one character, but got '%s' instead.")
    ELSE Goto(next(lx), "lexPred")

lexPred(lx) ==
    IF ~ApplyPred(lx.pred, nextRune(lx))
    THEN ReturnPop(backup(next(lx)))
    ELSE Goto(next(lx), "lexPred")

\* the runes of letters are read in turn; the first that differs has been read
RECURSIVE lexVersionFrom(_, _)
lexVersionFrom(lx, letters) ==
    IF letters = <<>> THEN Goto(emit(lx, "Version"), "lexCif")
    ELSE IF nextRune(lx) # Head(letters)
         THEN Goto(push(next(lx), "lexCif"), "lexComment")
         ELSE lexVersionFrom(next(lx), Tail(letters))
lexVersion(lx) == lexVersionFrom(lx, versionLetters)

lexSpaceOrEofContinue(lx) ==
    LET r == peek(lx)
    IN  IF ~isWhiteSpace(r) /\ r # eof
        THEN errf(lx, "Expected whitespace or EOF, but got '%s' instead.")
        ELSE IF r = eof THEN stop(lx)
        ELSE ReturnPop(lx)

\* lexWhiteSpaceContinue leaving the white space where it is
lexWhiteSpaceStay(lx) ==
    LET r == nextRune(lx)
    IN  IF r = commentStart THEN Goto(ignore(next(lx)), "lexComment")
        ELSE IF ~isWhiteSpace(r) THEN ReturnPop(ignore(backup(next(lx))))
        ELSE Goto(ignore(lx), "lexWhiteSpaceContinue")

lexWhiteSpaceContinue(lx) ==
    LET r == nextRune(lx)
    IN  IF r = commentStart THEN Goto(ignore(next(lx)), "lexComment")
        ELSE IF ~isWhiteSpace(r) THEN ReturnPop(ignore(backup(next(lx))))
        ELSE Goto(ignore(next(lx)), "lexWhiteSpaceContinue")

lexComment(lx) ==
    LET r == peek(lx)
    IN  IF isNL(r) \/ r = eof
        THEN Goto(emit(lx, "Comment"), "lexWhiteSpaceContinue")
        ELSE Goto(accept(lx, r), "lexComment")

(***************************************************************************)
(* The value states.                                                       *)
(***************************************************************************)
\* no falling back: the character is reported
FallBackRefused(lx) == errf(lx, "Expected a digit, but got '%s'.")

\* Fall back to unquoted string.
FallBackUnquoted(lx) == chars(push(lx, "lexValueUnquotedEnd"), FALSE, "isNonBlankChar")

lexValue(lx) ==
    LET b == backup(lx)
        previous == nextRune(b)
        l0 == next(b)
        r == nextRune(l0)
        l1 == next(l0)
    IN  IF aheadMatch(l0, kwData)
        THEN errf(l0, "data_ cannot be used in the beginning of an unquoted value.")
        ELSE IF aheadMatch(l0, kwSave)
        THEN errf(l0, "save_ cannot be used in the beginning of an unquoted value.")
        ELSE IF r = dataOmitted /\ (isWhiteSpace(peek(l1)) \/ peek(l1) = eof)
        THEN lexSpaceOrEof(emit(l1, "DataOmitted"), "lexValueEnd")
        ELSE IF r = dataMissing
        THEN lexSpaceOrEof(emit(l1, "DataMissing"), "lexValueEnd")
        ELSE IF r = "+" \/ r = "-" THEN Goto(l1, "lexValueIntegerStart")
        ELSE IF isDigit(r) THEN Goto(l1, "lexValueInteger")
        ELSE IF r = "." THEN Goto(l1, "lexValueFloatAfterDecimal")
        ELSE IF r = "'" THEN Goto(ignore(l1), "lexValueQuotedSingle")
        ELSE IF r = "\"" THEN Goto(ignore(l1), "lexValueQuotedDouble")
        ELSE IF isNL(previous) /\ r = ";"
        THEN Goto(ignore(l1), "lexValueTextFieldFirstLine")
        ELSE IF isNL(previous) /\ isOrdinaryChar(r) THEN FallBackUnquoted(l1)
        ELSE IF ~isNL(previous) /\ (isOrdinaryChar(r) \/ r = ";")
        THEN FallBackUnquoted(l1)
        ELSE errf(l1, "Expected a value ('.', '?', numeric or string), but got '%s'.")

\* lexValueEnd without its pop: the continuation stays on the stack
lexValueEndKeep(lx) == lexWhiteSpace(lx, popState(lx))

\* lexWhiteSpace(lx, lx.pop())
lexValueEnd(lx) == lexWhiteSpace(pop(lx), popState(lx))

lexValueIntegerStart(lx) ==
    LET r == peek(lx)
    IN  IF isDigit(r) THEN Goto(accept(lx, r), "lexValueInteger")
        ELSE IF r = "." THEN Goto(accept(lx, r), "lexValueFloatAfterDecimal")
        ELSE FallBackUnquoted(lx)

lexValueInteger(lx) ==
    LET r == peek(lx)
    IN  IF isDigit(r) THEN Goto(accept(lx, r), "lexValueInteger")
        ELSE IF r = "." THEN Goto(accept(lx, r), "lexValueFloatAfterDecimal")
        ELSE IF r = "e" \/ r = "E" THEN Goto(accept(lx, r), "lexValueExponentFirst")
        ELSE IF isWhiteSpace(r) \/ r = eof
        THEN lexSpaceOrEof(emit(lx, "DataInteger"), "lexValueEnd")
        ELSE FallBackUnquoted(lx)

lexValueExponentFirst(lx) ==
    LET r == peek(lx)
    IN  IF r = "+" \/ r = "-"
        THEN Goto(accept(lx, r), "lexValueExponent")
        ELSE Goto(lx, "lexValueExponent")

lexValueExponent(lx) ==
    LET r == peek(lx)
    IN  IF isDigit(r) THEN Goto(accept(lx, r), "lexValueExponent")
        ELSE IF isWhiteSpace(r) \/ r = eof
        THEN lexSpaceOrEof(emit(lx, "DataFloat"), "lexValueEnd")
        ELSE FallBackUnquoted(lx)

lexValueFloatAfterDecimal(lx) ==
    LET r == peek(lx)
    IN  IF isDigit(r) THEN Goto(accept(lx, r), "lexValueFloatAfterDecimal")
        ELSE IF r = "e" \/ r = "E" THEN Goto(accept(lx, r), "lexValueExponentFirst")
        ELSE IF isWhiteSpace(r) \/ r = eof
        THEN lexSpaceOrEof(emit(lx, "DataFloat"), "lexValueEnd")
        ELSE FallBackUnquoted(lx)

lexValueTextFieldFirstLine(lx) ==
    chars(push(lx, "lexValueTextField"), FALSE, "isPrintChar")

\* the errf of the second branch is not returned: the state goes on with the
\* error item pending
lexValueTextField(lx) ==
    LET s == peekAt(lx, 2)
        r == nextRune(lx)
        l1 == IF ~isNL(r)
              THEN [errf(next(lx), "Expected at a new line before end of semi-colon text field, but got '%s' instead.")
                        EXCEPT !.state = lx.state]
              ELSE next(lx)
    IN  IF Len(s) = 2 /\ isNL(s[1]) /\ s[2] = ";"
        THEN acceptStr(push(emit(lx, "DataString"), "lexValueEnd"),
                       s, "lexSpaceOrEofContinue")
        ELSE IF Len(s) < 2
        THEN errf(lx, "Expected a semi-colon terminator, but got EOF.")
        ELSE IF isNL(peek(l1)) THEN Goto(l1, "lexValueTextField")
        ELSE chars(push(l1, "lexValueTextField"), TRUE, "isPrintChar")

lexValueUnquotedEnd(lx) ==
    IF ToLower(current(lx)) \in {kwLoop, kwStop, kwGlobal}
    THEN errf(lx, "%s cannot be used as an unquoted string value.")
    ELSE lexSpaceOrEof(emit(lx, "DataString"), "lexValueEnd")

\* the loop of the closure lexValueQuoted(quote) returns
RECURSIVE lexValueQuoted(_, _)
lexValueQuoted(lx, quote) ==
    LET r == nextRune(lx)
        l1 == next(lx)
        pk == peekAt(l1, 1)
    IN  IF isNL(r) THEN errf(l1, "Quoted strings may not contain new lines.")
        ELSE IF r = eof THEN errf(l1, "Expected end of quoted string, but got EOF.")
        ELSE IF r = quote /\ (Len(pk) = 0 \/ isWhiteSpace(pk[1]))
        THEN lexSpaceOrEof(ignore(accept(emit(backup(l1), "DataString"), r)),
                           "lexValueEnd")
        ELSE lexValueQuoted(l1, quote)

(***************************************************************************)
(* nextItem: run state functions until one has emitted or returned nil.    *)
(***************************************************************************)
StateFn(lx) ==
    CASE lx.state = "lexCifInitial" -> lexCifInitial(lx)
      [] lx.state = "lexCif" -> lexCif(lx)
      [] lx.state = "lexDataBlockHeading" -> lexDataBlockHeading(lx)
      [] lx.state = "lexSaveFrameHeading" -> lexSaveFrameHeading(lx)
      [] lx.state = "lexDataBlocks" -> lexDataBlocks(lx)
      [] lx.state = "lexFirstSaveDataItem" -> lexFirstSaveDataItem(lx)
      [] lx.state = "lexSaveDataItems" -> lexSaveDataItems(lx)
      [] lx.state = "lexDataItem" -> lexDataItem(lx)
      [] lx.state = "lexLoopStartWhiteSpace" -> lexLoopStartWhiteSpace(lx)
      [] lx.state = "lexLoopStart" -> lexLoopStart(lx)
      [] lx.state = "lexLoopTags" -> lexLoopTags(lx)
      [] lx.state = "lexLoopStartValue" -> lexLoopStartValue(lx)
      [] lx.state = "lexLoopValues" -> lexLoopValues(lx)
      [] lx.state = "lexDataTag" -> lexDataTag(lx)
      [] lx.state = "lexOneOrMore" -> lexOneOrMore(lx)
      [] lx.state = "lexPred" -> lexPred(lx)
      [] lx.state = "lexVersion" -> lexVersion(lx)
      [] lx.state = "lexSpaceOrEofContinue" -> lexSpaceOrEofContinue(lx)
      [] lx.state = "lexWhiteSpaceContinue" -> lexWhiteSpaceContinue(lx)
      [] lx.state = "lexComment" -> lexComment(lx)
      [] lx.state = "lexValue" -> lexValue(lx)
      [] lx.state = "lexValueEnd" -> lexValueEnd(lx)
      [] lx.state = "lexValueIntegerStart" -> lexValueIntegerStart(lx)
      [] lx.state = "lexValueInteger" -> lexValueInteger(lx)
      [] lx.state = "lexValueExponentFirst" -> lexValueExponentFirst(lx)
      [] lx.state = "lexValueExponent" -> lexValueExponent(lx)
      [] lx.state = "lexValueFloatAfterDecimal" -> lexValueFloatAfterDecimal(lx)
      [] lx.state = "lexValueTextFieldFirstLine" -> lexValueTextFieldFirstLine(lx)
      [] lx.state = "lexValueTextField" -> lexValueTextField(lx)
      [] lx.state = "lexValueUnquotedEnd" -> lexValueUnquotedEnd(lx)
      [] lx.state = "lexValueQuotedSingle" -> lexValueQuoted(lx, "'")
      [] lx.state = "lexValueQuotedDouble" -> lexValueQuoted(lx, "\"")

\* the loop of nextItem
RECURSIVE RunStates(_)
RunStates(lx) ==
    IF lx.emitted = NoItem /\ lx.state # "nil" /\ ~lx.panicked
    THEN RunStates(StateFn(lx))
    ELSE lx

\* the item nextItem returns, and the lexer it leaves
nextItemOf(ran) ==
    IF ran.state = "nil" THEN [typ |-> "EOF", val |-> <<>>, line |-> 0]
    ELSE ran.emitted
nextItemLexer(ran) ==
    IF ran.state = "nil" THEN ran ELSE [ran EXCEPT !.emitted = NoItem]

(***************************************************************************)
(* Values (the Value interface and AsValue).  A value is a record of one   *)
(* shape: k is its variant; a string has its text in s; a number is its    *)
(* sign neg and its decimal digits digs (no leading zero, and for a float  *)
(* no trailing zero either), a float being digs * 10^e.  Numbers are kept  *)
(* as decimal digits so that no width of the checker's integers limits     *)
(* them.  A float literal of the model has at most 15 significant digits,  *)
(* where float64 tells any two decimals apart.                             *)
(***************************************************************************)
cifString(str) == [k |-> "string", s |-> str, neg |-> FALSE, digs |-> <<>>, e |-> 0]
cifInt(neg, digs) == [k |-> "int", s |-> <<>>, neg |-> neg, digs |-> digs, e |-> 0]
cifFloat(neg, digs, e) == [k |-> "float", s |-> <<>>, neg |-> neg, digs |-> digs, e |-> e]

DigitSeq == <<"0","1","2","3","4","5","6","7","8","9">>
DigitVal(c) == (CHOOSE i \in 1..10 : DigitSeq[i] = c) - 1

RECURSIVE StripLeadingZeros(_)
StripLeadingZeros(d) ==
    IF d # <<>> /\ Head(d) = "0" THEN StripLeadingZeros(Tail(d)) ELSE d

RECURSIVE StripTrailingZeros(_)
StripTrailingZeros(d) ==
    IF d # <<>> /\ d[Len(d)] = "0"
    THEN StripTrailingZeros(SubSeq(d, 1, Len(d) - 1)) ELSE d

Zeros(n) == [i \in 1..n |-> "0"]

\* d1 <= d2 for two digit texts of the same length
RECURSIVE DigitsLeq(_, _)
DigitsLeq(d1, d2) ==
    IF d1 = <<>> THEN TRUE
    ELSE IF Head(d1) # Head(d2) THEN DigitVal(Head(d1)) < DigitVal(Head(d2))
    ELSE DigitsLeq(Tail(d1), Tail(d2))

\* the length of the longest prefix of str made of digits
RECURSIVE DigitRun(_)
DigitRun(str) ==
    IF str # <<>> /\ isDigit(Head(str)) THEN 1 + DigitRun(Tail(str)) ELSE 0

HasSign(str) == str # <<>> /\ Head(str) \in {"+", "-"}
Unsigned(str) == IF HasSign(str) THEN Tail(str) ELSE str

MaxInt64 == <<"9","2","2","3","3","7","2","0","3","6","8","5","4","7","7","5","8","0","7">>
MinInt64 == <<"9","2","2","3","3","7","2","0","3","6","8","5","4","7","7","5","8","0","8">>

\* strconv.Atoi: an optional sign and one or more digits, within 64 bits
AtoiOk(str) ==
    LET u == Unsigned(str)
        d == StripLeadingZeros(u)
    IN  /\ u # <<>>
        /\ DigitRun(u) = Len(u)
        /\ \/ Len(d) < 19
           \/ /\ Len(d) = 19
              /\ DigitsLeq(d, IF Head(str) = "-" THEN MinInt64 ELSE MaxInt64)
Atoi(str) ==
    LET d == StripLeadingZeros(Unsigned(str))
    IN  IF d = <<>> THEN cifInt(FALSE, <<"0">>)
        ELSE cifInt(Head(str) = "-", d)

\* The parts of a decimal float literal: sign, the digits before and after
\* the point, and the exponent part (after e or E) when there is one.
FloatParts(str) ==
    LET u == Unsigned(str)
        ni == DigitRun(u)
        afterInt == SubSeq(u, ni + 1, Len(u))
        hasDot == afterInt # <<>> /\ Head(afterInt) = "."
        afterDot == IF hasDot THEN Tail(afterInt) ELSE afterInt
        nf == IF hasDot THEN DigitRun(afterDot) ELSE 0
        afterFrac == SubSeq(afterDot, nf + 1, Len(afterDot))
        hasExp == afterFrac # <<>> /\ Head(afterFrac) \in {"e", "E"}
        expPart == IF hasExp THEN Tail(afterFrac) ELSE <<>>
        expDigits == Unsigned(expPart)
    IN  [neg |-> str # <<>> /\ Head(str) = "-",
         int |-> SubSeq(u, 1, ni),
         frac |-> SubSeq(afterDot, 1, nf),
         hasExp |-> hasExp,
         expNeg |-> expPart # <<>> /\ Head(expPart) = "-",
         expDigits |-> expDigits,
         rest |-> IF hasExp THEN <<>> ELSE afterFrac]

RECURSIVE DigitsToNat(_)
DigitsToNat(d) ==
    IF d = <<>> THEN 0 ELSE 10 * DigitsToNat(SubSeq(d, 1, Len(d) - 1)) + DigitVal(d[Len(d)])

\* more digits of exponent than any float64 has: the exponent is then huge
MaxExpDigits == 4
MaxFloat64Mag == 309
MaxFloat64Head == <<"1","7","9","7","6","9","3","1","3","4","8","6","2","3","1","5","7">>

FloatSyntaxOk(str) ==
    LET p == FloatParts(str)
    IN  /\ Len(p.int) + Len(p.frac) >= 1
        /\ p.rest = <<>>
        /\ p.hasExp => /\ p.expDigits # <<>>
                       /\ DigitRun(p.expDigits) = Len(p.expDigits)

\* the exponent written, capped where it is beyond any float64
FloatExp(p) ==
    LET d == StripLeadingZeros(p.expDigits)
        n == IF Len(d) > MaxExpDigits THEN 10000 ELSE DigitsToNat(d)
    IN  IF p.expNeg THEN 0 - n ELSE n

\* mantissa digits, and the power of ten they are scaled by
FloatDigits(p) == StripTrailingZeros(StripLeadingZeros(p.int \o p.frac))
FloatScale(p) ==
    LET all == StripLeadingZeros(p.int \o p.frac)
    IN  FloatExp(p) - Len(p.frac) + (Len(all) - Len(FloatDigits(p)))

\* the value is below 10^mag
FloatMag(p) == Len(FloatDigits(p)) + FloatScale(p)

FloatInRange(p) ==
    LET d == FloatDigits(p)
        h == SubSeq(d \o Zeros(17), 1, 17)
    IN  \/ d = <<>>
        \/ FloatMag(p) < MaxFloat64Mag
        \/ FloatMag(p) = MaxFloat64Mag /\ DigitsLeq(h, MaxFloat64Head)

\* strconv.ParseFloat(str, 64): syntax, then range (a value too large is an
\* error; one too small is 0)
ParseFloatOk(str) == FloatSyntaxOk(str) /\ FloatInRange(FloatParts(str))
MinFloat64Mag == 0 - 323
ParseFloat(str) ==
    LET p == FloatParts(str)
        d == FloatDigits(p)
    IN  IF d = <<>> \/ FloatMag(p) < MinFloat64Mag
        THEN cifFloat(p.neg, <<"0">>, 0)
        ELSE cifFloat(p.neg, d, FloatScale(p))

(***************************************************************************)
(* fmt.Sprintf("%d") and fmt.Sprintf("%f") of a number.                    *)
(***************************************************************************)
FormatInt(v) == (IF v.neg THEN <<"-">> ELSE <<>>) \o v.digs

\* a digit text plus one
RECURSIVE Incr(_)
Incr(d) ==
    IF d = <<>> THEN <<"1">>
    ELSE IF d[Len(d)] = "9" THEN Incr(SubSeq(d, 1, Len(d) - 1)) \o <<"0">>
    ELSE SubSeq(d, 1, Len(d) - 1) \o <<DigitSeq[DigitVal(d[Len(d)]) + 2]>>

\* six decimals: the digits after the sixth round to nearest, a tie to even
FloatPrecision == 6
FormatFloat(v) ==
    LET f == 0 - v.e
        all == IF v.e >= 0 THEN v.digs \o Zeros(v.e) \o Zeros(FloatPrecision)
               ELSE IF Len(v.digs) > f THEN v.digs \o Zeros(FloatPrecision)
               ELSE Zeros(f + 1 - Len(v.digs)) \o v.digs \o Zeros(FloatPrecision)
        nfrac == IF v.e >= 0 THEN FloatPrecision ELSE f + FloatPrecision
        keep == SubSeq(all, 1, Len(all) - nfrac + FloatPrecision)
        drop == SubSeq(all, Len(all) - nfrac + FloatPrecision + 1, Len(all))
        half == <<"5">> \o Zeros(Len(drop) - 1)
        up == /\ drop # <<>>
              /\ IF drop = half THEN DigitVal(keep[Len(keep)]) % 2 = 1
                 ELSE DigitsLeq(half, drop)
        rounded == IF up THEN Incr(keep) ELSE keep
        ipart == SubSeq(rounded, 1, Len(rounded) - FloatPrecision)
        fpart == SubSeq(rounded, Len(rounded) - FloatPrecision + 1, Len(rounded))
    IN  (IF v.neg THEN <<"-">> ELSE <<>>) \o ipart \o <<".">> \o fpart

(***************************************************************************)
(* The methods of a Value.  A method is chosen by the variant of the value *)
(* (cifString, cifInt, cifFloat).  A result is written in the shape of a   *)
(* value too: k is its Go type (string, int, float for float64).  A float  *)
(* of the model stands for the float64 nearest to its decimal; with at     *)
(* most 15 significant digits the whole part of the two is the same.       *)
(***************************************************************************)
\* int(cf): the fraction is dropped; a whole part outside 64 bits converts
\* to a value the processor chooses (the least int, or the nearest one)
IntOfFloat(cf) ==
    LET n == Len(cf.digs) + cf.e
        whole == IF cf.e >= 0 THEN cf.digs \o Zeros(cf.e)
                 ELSE IF n > 0 THEN SubSeq(cf.digs, 1, n) ELSE <<>>
        d == StripLeadingZeros(whole)
        most == IF cf.neg THEN MinInt64 ELSE MaxInt64
    IN  IF d = <<>> THEN {cifInt(FALSE, <<"0">>)}
        ELSE IF Len(d) < 19 \/ (Len(d) = 19 /\ DigitsLeq(d, most))
        THEN {cifInt(cf.neg, d)}
        ELSE {cifInt(TRUE, MinInt64), cifInt(cf.neg, most)}

\* float64(ci)
FloatOfInt(ci) ==
    LET d == StripTrailingZeros(ci.digs)
    IN  IF d = <<>> THEN cifFloat(FALSE, <<"0">>, 0)
        ELSE cifFloat(ci.neg, d, Len(ci.digs) - Len(d))

\* String with the number formatted for a numeric value
ValueStringFormatted(v) ==
    CASE v.k = "string" -> cifString(v.s)
      [] v.k = "int"    -> cifString(FormatInt(v))
      [] OTHER          -> cifString(FormatFloat(v))

\* Value.String
ValueString(v) ==
    CASE v.k = "string" -> cifString(v.s)
      [] v.k = "int"    -> cifString(<<>>)
      [] OTHER          -> cifString(<<>>)

\* Value.Int: the set of the results the call can have
ValueInt(v) ==
    CASE v.k = "string" -> {cifInt(FALSE, <<"0">>)}
      [] v.k = "int"    -> {cifInt(v.neg, v.digs)}
      [] OTHER          -> IntOfFloat(v)

\* Value.Float
ValueFloat(v) ==
    CASE v.k = "string" -> cifFloat(FALSE, <<"0">>, 0)
      [] v.k = "int"    -> FloatOfInt(v)
      [] OTHER          -> cifFloat(v.neg, v.digs, v.e)

\* Value.Raw: the dynamic type of the result is the underlying type
ValueRaw(v) ==
    CASE v.k = "string" -> cifString(v.s)
      [] v.k = "int"    -> cifInt(v.neg, v.digs)
      [] OTHER          -> cifFloat(v.neg, v.digs, v.e)


(***************************************************************************)
(* The document (types.go).  A map is a function on its keys; a *Loop is   *)
(* the index of the Loop in the heap of the tables allocated so far, so    *)
(* that two tags bound to one table hold the same index.                   *)
(***************************************************************************)
EmptyMap == <<>>
MapPut(m, key, v) == [x \in (DOMAIN m) \cup {key} |-> IF x = key THEN v ELSE m[x]]

NewBlock(name) == [Name |-> name, Items |-> EmptyMap, Loops |-> EmptyMap]
NewDataBlock(name) ==
    [Name |-> name, Items |-> EmptyMap, Loops |-> EmptyMap, Frames |-> EmptyMap]
NewCIF == [Version |-> <<>>, Blocks |-> EmptyMap]

\* AsValues: a column is the variant of its slice and the values in it
AsValues(kind, vals) == [k |-> kind, vals |-> vals]

\* Loop.Get
Get(lp, name) == lp.Values[lp.Columns[name]]

(***************************************************************************)
(* The parser (parse.go).  An error is the value a panic carries: errf     *)
(* panics with a cifError that cites p.line.                               *)
(***************************************************************************)
NilErr == [type |-> "nil", msg |-> "", line |-> 0, name |-> <<>>, nums |-> <<>>]
cifError(line, msg, name, nums) ==
    [type |-> "cifError", msg |-> msg, line |-> line, name |-> name, nums |-> nums]
\* the panic of emit carries a plain string
stringPanic(msg) ==
    [type |-> "string", msg |-> msg, line |-> 0, name |-> <<>>, nums |-> <<>>]

\* a deferred function that swallows every panic
RecoverNone(panicVal) == NilErr

\* the deferred function of parser.parse: only a cifError becomes the error
RecoverParse(panicVal) ==
    IF panicVal.type = "cifError" THEN panicVal ELSE NilErr

isValueType(t) ==
    t \in {"DataOmitted", "DataMissing", "DataInteger", "DataFloat", "DataString"}
isNull(t) == t \in {"DataOmitted", "DataMissing"}
isInteger(t) == t = "DataInteger"
isFloat(t) == t = "DataFloat"

\* parser.next: comments are skipped, an Error item panics with the line of
\* the item before it, any other item sets p.line.  The field errf is the
\* Error item the scanner holds when nextItem returns, NoItem if it holds none.
RECURSIVE p_next(_, _)
Returned(ran, line) ==
    IF ran.panicked
    THEN [lx |-> ran, t |-> NoItem, line |-> line, errf |-> NoItem,
          panic |-> stringPanic("BUG in lexer: a state may only emit a single token")]
    ELSE IF nextItemOf(ran).typ = "Comment" THEN p_next(nextItemLexer(ran), line)
    ELSE IF nextItemOf(ran).typ = "Error"
    THEN [lx |-> nextItemLexer(ran), t |-> nextItemOf(ran), line |-> line,
          errf |-> ran.emitted,
          panic |-> cifError(line, nextItemOf(ran).val[1], <<>>, <<>>)]
    ELSE [lx |-> nextItemLexer(ran), t |-> nextItemOf(ran),
          line |-> nextItemOf(ran).line, panic |-> NilErr,
          errf |-> IF ran.emitted.typ = "Error" THEN ran.emitted ELSE NoItem]
p_next(lx, line) == Returned(RunStates(lx), line)

\* parser.parseValue: the value of a value item, or the panic
parseValuePanic(t, line, bname, name) ==
    CASE t.typ = "DataInteger" /\ ~AtoiOk(t.val) ->
             cifError(line, "Could not parse '%s' as integer: %s", t.val, <<>>)
      [] t.typ = "DataFloat" /\ ~ParseFloatOk(t.val) ->
             cifError(line, "Could not parse '%s' as float: %s", t.val, <<>>)
      [] ~isValueType(t.typ) ->
             cifError(line, "Expected value for data tag '%s' in block '%s', but got a '%s' instead.",
                      name, <<>>)
      [] OTHER -> NilErr
parseValue(t) ==
    CASE t.typ = "DataOmitted" -> cifString(<<".">>)
      [] t.typ = "DataMissing" -> cifString(<<"?">>)
      [] t.typ = "DataInteger" -> Atoi(t.val)
      [] t.typ = "DataFloat" -> ParseFloat(t.val)
      [] OTHER -> cifString(t.val)

\* parser.assertUniqueTag on block b
TagExists(b, name) == name \in DOMAIN b.Items \/ name \in DOMAIN b.Loops

\* NextColumnType without the promotion of a mix of integers and floats
NextColumnTypeNoFloat(colTyp, typ) ==
    IF colTyp = "DataNone" THEN typ
    ELSE IF colTyp # typ /\ ~isNull(typ) THEN "DataString"
    ELSE colTyp

\* the type a column has after one more value of type typ (parseLoop)
NextColumnType(colTyp, typ) ==
    IF colTyp = "DataNone" THEN typ
    ELSE IF colTyp # typ /\ ~isNull(typ)
    THEN IF (isInteger(colTyp) /\ isFloat(typ)) \/ (isFloat(colTyp) /\ isInteger(typ))
         THEN "DataFloat"
         ELSE "DataString"
    ELSE colTyp

\* ConvertColumn without the test for "." and "?" in a numeric column
ConvertColumnNoNull(val) ==
    CASE val.typ = "DataInteger" ->
             AsValues("ints", [j \in 1..Len(val.strs) |-> Atoi(val.strs[j])])
      [] val.typ = "DataFloat" ->
             AsValues("floats", [j \in 1..Len(val.strs) |-> ParseFloat(val.strs[j])])
      [] OTHER ->
             AsValues("strings", [j \in 1..Len(val.strs) |-> cifString(val.strs[j])])

\* convertLoopValues, one column: the panic if a text does not convert
ColumnPanic(val, line, bname) ==
    CASE val.typ = "DataInteger"
           /\ \E j \in 1..Len(val.strs) :
                 val.strs[j] \notin {<<".">>, <<"?">>} /\ ~AtoiOk(val.strs[j]) ->
             cifError(line, "Could not parse '%s' as integer: %s", val.name, <<>>)
      [] val.typ = "DataFloat"
           /\ \E j \in 1..Len(val.strs) :
                 val.strs[j] \notin {<<".">>, <<"?">>} /\ ~ParseFloatOk(val.strs[j]) ->
             cifError(line, "Could not parse '%s' as float: %s", val.name, <<>>)
      [] val.typ \notin {"DataOmitted", "DataMissing", "DataString",
                         "DataInteger", "DataFloat"} ->
             cifError(line, "Expected value for data tag '%s' in block '%s', but got a '%s' instead.",
                      val.name, <<>>)
      [] OTHER -> NilErr
ConvertColumn(val) ==
    CASE val.typ = "DataInteger" ->
             AsValues("ints",
                 [j \in 1..Len(val.strs) |->
                     IF val.strs[j] \in {<<".">>, <<"?">>} THEN cifInt(FALSE, <<"0">>)
                     ELSE Atoi(val.strs[j])])
      [] val.typ = "DataFloat" ->
             AsValues("floats",
                 [j \in 1..Len(val.strs) |->
                     IF val.strs[j] \in {<<".">>, <<"?">>} THEN cifFloat(FALSE, <<"0">>, 0)
                     ELSE ParseFloat(val.strs[j])])
      [] OTHER ->
             AsValues("strings", [j \in 1..Len(val.strs) |-> cifString(val.strs[j])])

\* the first column whose conversion panics, 0 if none does
FirstBadColumn(vals, line, bname) ==
    IF \E i \in 1..Len(vals) : ColumnPanic(vals[i], line, bname) # NilErr
    THEN CHOOSE i \in 1..Len(vals) :
            /\ ColumnPanic(vals[i], line, bname) # NilErr
            /\ \A j \in 1..(i - 1) : ColumnPanic(vals[j], line, bname) = NilErr
    ELSE 0

\* LoopCountPanic without the check
LoopCountNoPanic(count, loopLine, n, line) == NilErr

\* LoopCountPanic citing the line the parser stands on
LoopCountCitesLine(count, loopLine, n, line) ==
    IF count % n # 0
    THEN cifError(line, "There are %d values in loop (starting on line %d), which is not a multiple of the number of columns in the loop (%d).",
                  <<>>, <<count, line, n>>)
    ELSE NilErr

\* parseLoop, the check of count against the number of columns
LoopCountPanic(count, loopLine, n, line) ==
    IF count % n # 0
    THEN cifError(line, "There are %d values in loop (starting on line %d), which is not a multiple of the number of columns in the loop (%d).",
                  <<>>, <<count, loopLine, n>>)
    ELSE NilErr

\* the Loop convertLoopValues builds: a later column of the same name takes
\* the name's index
RECURSIVE LoopColumns(_, _)
LoopColumns(vals, n) ==
    IF n = 0 THEN EmptyMap
    ELSE MapPut(LoopColumns(vals, n - 1), vals[n].name, n - 1)
NewLoop(vals) ==
    [Columns |-> LoopColumns(vals, Len(vals)),
     Values |-> [i \in 1..Len(vals) |-> ConvertColumn(vals[i])]]

\* BindLoop that binds the table to its first tag alone
BindFirstTag(loopsMap, vals, n, lp) == MapPut(loopsMap, vals[1].name, lp)

\* b.Loops[val.name] = lp for every column: all tags hold the pointer lp
RECURSIVE BindLoop(_, _, _, _)
BindLoop(loopsMap, vals, n, lp) ==
    IF n = 0 THEN loopsMap
    ELSE MapPut(BindLoop(loopsMap, vals, n - 1, lp), vals[n].name, lp)


(***************************************************************************)
(* The writer (write.go): the text each call of pf writes.                 *)
(***************************************************************************)
\* the whole of str matches matchNumeric1
FullNumeric1(str) ==
    LET u == Unsigned(str)
        ni == DigitRun(u)
        r1 == SubSeq(u, ni + 1, Len(u))
        r2 == IF r1 = <<>> THEN <<>> ELSE Tail(r1)
        nf == DigitRun(r2)
        r3 == SubSeq(r2, nf + 1, Len(r2))
        x == IF r3 = <<>> THEN <<>> ELSE Unsigned(Tail(r3))
    IN  /\ ni >= 1
        /\ \/ r1 = <<>>
           \/ /\ Head(r1) = "."
              /\ \/ r3 = <<>>
                 \/ /\ Head(r3) \in {"e", "E"}
                    /\ x # <<>>
                    /\ DigitRun(x) = Len(x)

\* the whole of str matches matchNumeric2
FullNumeric2(str) ==
    LET u == Unsigned(str)
        r2 == IF u = <<>> THEN <<>> ELSE Tail(u)
        nf == DigitRun(r2)
        r3 == SubSeq(r2, nf + 1, Len(r2))
        x == IF r3 = <<>> THEN <<>> ELSE Unsigned(Tail(r3))
    IN  /\ u # <<>> /\ Head(u) = "."
        /\ nf >= 1
        /\ \/ r3 = <<>>
           \/ /\ Head(r3) \in {"e", "E"}
              /\ x # <<>>
              /\ DigitRun(x) = Len(x)

\* Regexp.MatchString: some substring of str matches
MatchString(Full(_), str) ==
    \E i \in 1..(Len(str) + 1) : \E j \in (i - 1)..Len(str) : Full(SubSeq(str, i, j))
matchNumeric1(str) == MatchString(FullNumeric1, str)
matchNumeric2(str) == MatchString(FullNumeric2, str)

writeError(msg) ==
    [type |-> "writeError", msg |-> msg, line |-> 0, name |-> <<>>, nums |-> <<>>]

\* formatStr, the loop over the runes of str from the i-th on: st holds
\* which, seenDouble, seenSingle and the panic of the last case
RECURSIVE formatScan(_, _, _)
formatScan(str, i, st) ==
    IF i > Len(str) THEN st
    ELSE LET r == str[i]
         IN  CASE isNL(r) -> [st EXCEPT !.which = "text"]
               [] r = "\"" ->
                    IF st.seenSingle
                    THEN [st EXCEPT !.seenDouble = TRUE, !.which = "text"]
                    ELSE formatScan(str, i + 1,
                             [st EXCEPT !.seenDouble = TRUE, !.which = "single"])
               [] r = "'" ->
                    IF st.seenDouble
                    THEN [st EXCEPT !.seenSingle = TRUE, !.which = "text"]
                    ELSE formatScan(str, i + 1,
                             [st EXCEPT !.seenSingle = TRUE, !.which = "double"])
               [] ~isOrdinaryChar(r) ->
                    IF st.seenDouble /\ st.seenSingle
                    THEN [st EXCEPT !.which = "text"]
                    ELSE IF st.seenDouble
                    THEN formatScan(str, i + 1, [st EXCEPT !.which = "single"])
                    ELSE formatScan(str, i + 1, [st EXCEPT !.which = "double"])
               [] ~isPrintChar(r) ->
                    [st EXCEPT !.panic = writeError("CIF write: The character '%c' is not a valid printable character in the CIF 1.1 specification.")]
               [] OTHER -> formatScan(str, i + 1, st)

formatWhich(str) ==
    formatScan(str, 1, [which |-> "unquoted", seenDouble |-> FALSE,
                        seenSingle |-> FALSE, panic |-> NilErr])

formatStrPanic(str) ==
    IF matchNumeric1(str) \/ matchNumeric2(str) THEN NilErr
    ELSE formatWhich(str).panic

\* formatStr without the test of the numeric look
formatStrAsIs(str) ==
    LET which == formatWhich(str).which
    IN  CASE which = "unquoted" -> str
          [] which = "single" -> <<"'">> \o str \o <<"'">>
          [] which = "double" -> <<"\"">> \o str \o <<"\"">>
          [] which = "text" -> <<"\n", ";">> \o str \o <<"\n", ";">>

formatStr(str) ==
    IF matchNumeric1(str) \/ matchNumeric2(str) THEN <<"\"">> \o str \o <<"\"">>
    ELSE LET which == formatWhich(str).which
         IN  CASE which = "unquoted" -> str
               [] which = "single" -> <<"'">> \o str \o <<"'">>
               [] which = "double" -> <<"\"">> \o str \o <<"\"">>
               [] which = "text" -> <<"\n", ";">> \o str \o <<"\n", ";">>

\* valToStr: the panic of a value that is no string, int or float
valToStrPanic(v) ==
    CASE v.k = "string" -> formatStrPanic(v.s)
      [] v.k \in {"int", "float"} -> NilErr
      [] OTHER -> writeError("CIF write: CIF does not support value of type '%T'.")
valToStr(v) ==
    CASE v.k = "string" -> formatStr(v.s)
      [] v.k = "int" -> FormatInt(v)
      [] v.k = "float" -> FormatFloat(v)

\* writeLoop: order[i], the empty string where no column has index i
LoopOrder(lp, i) ==
    IF \E c \in DOMAIN lp.Columns : lp.Columns[c] = i
    THEN CHOOSE c \in DOMAIN lp.Columns : lp.Columns[c] = i
    ELSE <<>>

\* writeLoop: strs[column][row]
LoopCellStr(col, row) ==
    CASE col.k = "strings" -> formatStr(col.vals[row].s)
      [] col.k = "ints" -> FormatInt(col.vals[row])
      [] col.k = "floats" -> FormatFloat(col.vals[row])

LoopStrsPanic(lp) ==
    LET bad == {<<i, j>> \in (1..Len(lp.Values)) \X (1..Len(lp.Values[1].vals)) :
                    /\ j <= Len(lp.Values[i].vals)
                    /\ lp.Values[i].k = "strings"
                    /\ formatStrPanic(lp.Values[i].vals[j].s) # NilErr}
    IN  IF bad = {} THEN NilErr
        ELSE formatStrPanic(LET c == CHOOSE c \in bad : TRUE
                            IN  lp.Values[c[1]].vals[c[2]].s)

\* the texts of the calls of pf in writeLoop, in order
RECURSIVE LoopTagSegs(_, _)
LoopTagSegs(lp, n) ==
    IF n = 0 THEN <<>>
    ELSE Append(LoopTagSegs(lp, n - 1), <<"_">> \o LoopOrder(lp, n - 1) \o <<"\n">>)

RECURSIVE LoopRowSegs(_, _, _)
LoopRowSegs(lp, row, column) ==
    IF column = 0 THEN <<>>
    ELSE Append(LoopRowSegs(lp, row, column - 1),
                (IF column = 1 THEN <<>> ELSE <<" ", " ">>)
                    \o LoopCellStr(lp.Values[column], row))

RECURSIVE LoopRowsSegs(_, _)
LoopRowsSegs(lp, rows) ==
    IF rows = 0 THEN <<>>
    ELSE LoopRowsSegs(lp, rows - 1)
            \o LoopRowSegs(lp, rows, Len(lp.Values)) \o << <<"\n">> >>

writeLoop(lp) ==
    << kwLoop \o <<"\n">> >>
        \o LoopTagSegs(lp, Len(lp.Values))
        \o LoopRowsSegs(lp, Len(lp.Values[1].vals))

\* the texts of segs one after another
RECURSIVE Concat(_)
Concat(segs) == IF segs = <<>> THEN <<>> ELSE Head(segs) \o Concat(Tail(segs))

loopEqual(lp1, lp2) == \E tag \in DOMAIN lp1.Columns : tag \in DOMAIN lp2.Columns
\* loopWritten finding no table written
loopWrittenNever(written, test, hp) == FALSE

loopWritten(written, test, hp) ==
    \E i \in 1..Len(written) : loopEqual(hp[written[i]], hp[test])

(***************************************************************************)
(* The state.                                                              *)
(*   input  the text the reader given to Read holds                        *)
(*   lx     the lexer of the running parse                                 *)
(*   p      the parser: pc is the function whose loop is running, or next  *)
(*          while it stands at a call of p.next(), ret then being where it *)
(*          goes on; t is the item in hand, line the parser's line, dname  *)
(*          and fname the data block and the save frame being built, name  *)
(*          the local of parseItemValue, vals, count and loopLine the      *)
(*          locals of parseLoop                                            *)
(*   cif    the CIF being built, heap the tables allocated for it          *)
(*   res    what Read returned: done, whether the *CIF is non-nil, the    *)
(*          error                                                          *)
(*   w      the writer: pc is the loop that is running, blocks, frames,    *)
(*          items and loops the keys its range loops have not visited yet, *)
(*          written the local of writeBlock, ret what Write returned       *)
(*   out    the text the sink has taken                                    *)
(*   round  1 while the caller's text is read and written, 2 while the     *)
(*          text Write wrote is read again, 3 while a second spelling of   *)
(*          the caller's text (keywords in lower case, or a comment line   *)
(*          put in) is read; first is the CIF of round 1 and ok whether    *)
(*          Read returned one                                              *)
(*   aux    history: cells, the value items of the loop being read, column *)
(*          by column; lastLoop, the table the last finished parseLoop     *)
(*          allocated; errf, the first Error item the scanner set, errfRet *)
(*          the item nextItem then returned and later the types of the     *)
(*          items it returned after that; dup, a tag was declared twice in *)
(*          one block; wfail, why Write panicked: "sink" for a failing     *)
(*          sink, "value" for a value of no supported variant, "char" for  *)
(*          a character formatStr refuses, "" while it has not; loopAt,    *)
(*          the line of the text the last loop_ stands on; badCount, that  *)
(*          parseLoop ended on a count its columns do not divide;          *)
(*          blockNames and frameNames, the lowered names of the headings   *)
(*          read so far, dupName the heading that repeated one; idents,    *)
(*          the heading and tag items delivered; tags and stream, the tags *)
(*          and the value items of the loop being read, in the order of    *)
(*          the text; variant, the kind of second spelling round 3 reads;  *)
(*          steps, the state functions run and the items returned when the *)
(*          scanner is run alone                                           *)
(*          call and ret, the method of a Value called last and what it    *)
(*          returned; marks, the types of the data block and save frame    *)
(*          items returned when the scanner is run alone, in their order   *)
(***************************************************************************)
VARIABLES input, lx, p, cif, heap, res, w, out, round, first, aux, other

vars == <<input, lx, p, cif, heap, res, w, out, round, first, aux, other>>

NoRes == [done |-> FALSE, cif |-> FALSE, err |-> NilErr]

InitParser ==
    [pc |-> "start", ret |-> "start", line |-> 0, t |-> NoItem, dname |-> <<>>,
     fname |-> <<>>, inFrame |-> FALSE, name |-> <<>>, loopLine |-> 0,
     vals |-> <<>>, count |-> 0]
InitWriter ==
    [pc |-> "idle", blocks |-> {}, frames |-> {}, items |-> {}, loops |-> {},
     written |-> <<>>, bname |-> <<>>, fname |-> <<>>, inFrame |-> FALSE,
     ret |-> NoRes]
InitAux ==
    [cells |-> <<>>, lastLoop |-> 0, errf |-> NoItem, errfRet |-> NoItem,
     later |-> {}, dup |-> FALSE, wfail |-> "", loopAt |-> 0, badCount |-> FALSE,
     blockNames |-> {}, frameNames |-> {}, dupName |-> <<>>, idents |-> {},
     tags |-> <<>>, stream |-> <<>>, variant |-> "", steps |-> 0,
     call |-> "", ret |-> cifString(<<>>), marks |-> <<>>]
\* no other call of Read is running
NoOther == [input |-> <<>>, lx |-> [lex(<<>>) EXCEPT !.state = "nil"], res |-> NoRes]

\* the line of the text on which the character after position pos stands
LineOf(text, pos) == 1 + Cardinality({i \in 1..pos : text[i] = "\n"})

\* the history of the scanner after a call n of parser.next
NoteScanner(a, n) ==
    IF a.errf # NoItem THEN [a EXCEPT !.later = @ \cup {n.t.typ}]
    ELSE IF n.errf # NoItem THEN [a EXCEPT !.errf = n.errf, !.errfRet = n.t]
    ELSE a
\* and the identifiers of the text: the headings and the tags returned
Note(a, n) ==
    IF n.t.typ \in {"DataBlockStart", "SaveFrameStart", "DataTag"}
    THEN [NoteScanner(a, n) EXCEPT !.idents = @ \cup {[typ |-> n.t.typ, val |-> n.t.val]}]
    ELSE NoteScanner(a, n)

\* the block parseLoop and parseItemValue are given
CurBlock ==
    IF p.inFrame THEN cif.Blocks[p.dname].Frames[p.fname] ELSE cif.Blocks[p.dname]
PutCurBlock(b) ==
    IF p.inFrame THEN [cif EXCEPT !.Blocks[p.dname].Frames[p.fname] = b]
    ELSE [cif EXCEPT !.Blocks[p.dname] = b]
BlockLoopPc == IF p.inFrame THEN "parseSaveFrame" ELSE "parseDataBlock"

\* a panic unwinds to the deferred function of parse: Read returns a nil *CIF
Panic(panicVal, lxNew, auxNew) ==
    /\ res' = [done |-> TRUE, cif |-> FALSE, err |-> RecoverParse(panicVal)]
    /\ p' = [p EXCEPT !.pc = "done"]
    /\ lx' = lxNew
    /\ aux' = auxNew
    /\ UNCHANGED <<other, input, cif, heap, w, out, round, first>>

\* p.lx = lex(input), up to the call t := p.next()
ReadStart ==
    /\ p.pc = "start"
    /\ lx' = lex(input)
    /\ p' = [p EXCEPT !.pc = "next", !.ret = "parse"]
    /\ UNCHANGED <<other, input, cif, heap, res, w, out, round, first, aux>>

\* the call of p.next() the parser stands at returns n, or panics
Deliver(n) ==
    IF n.panic # NilErr THEN Panic(n.panic, n.lx, Note(aux, n))
    ELSE /\ lx' = n.lx
         /\ p' = [p EXCEPT !.pc = p.ret, !.t = n.t, !.line = n.line]
         /\ aux' = Note(aux, n)
         /\ UNCHANGED <<other, input, cif, heap, res, w, out, round, first>>
NextItem ==
    /\ p.pc = "next"
    /\ Deliver(p_next(lx, p.line))

\* parse, case itemEOF: return p.CIF, nil
ParseEOF ==
    /\ p.pc = "parse" /\ p.t.typ = "EOF"
    /\ res' = [done |-> TRUE, cif |-> TRUE, err |-> NilErr]
    /\ p' = [p EXCEPT !.pc = "done"]
    /\ UNCHANGED <<other, input, lx, cif, heap, w, out, round, first, aux>>

\* VersionOf without the slice
VersionWhole(val) == val

\* parse, case itemVersion: t.val[3:]
VersionOf(val) == SubSeq(val, 4, Len(val))

\* parse, case itemVersion, and the default case
ParseVersion ==
    /\ p.pc = "parse" /\ p.t.typ \notin {"EOF", "DataBlockStart"}
    /\ IF p.t.typ # "Version"
       THEN Panic(cifError(p.line, "Expected comments, whitespace or a data block heading, but got a '%s' instead.",
                           <<>>, <<>>), lx, aux)
       ELSE /\ cif' = [cif EXCEPT !.Version = VersionOf(p.t.val)]
            /\ p' = [p EXCEPT !.pc = "next", !.ret = "parse"]
            /\ UNCHANGED <<other, input, lx, heap, res, w, out, round, first, aux>>

\* the history after a heading of the kind given: the names of the data
\* blocks so far, those of the save frames of the data block being read, and
\* the name that came a second time
NoteHeading(a, kind, name) ==
    IF kind = "data"
    THEN [a EXCEPT !.blockNames = @ \cup {name}, !.frameNames = {},
                   !.dupName = IF name \in a.blockNames THEN name ELSE @]
    ELSE [a EXCEPT !.frameNames = @ \cup {name},
                   !.dupName = IF name \in a.frameNames THEN name ELSE @]

\* BlockExists without the look-up
BlockExistsNever(blocks, name) == FALSE

\* parseDataBlock: _, ok := p.Blocks[name]
BlockExists(blocks, name) == name \in DOMAIN blocks

\* parse, case itemDataBlockStart: parseDataBlock up to its first p.next()
ParseDataBlock ==
    /\ p.pc = "parse" /\ p.t.typ = "DataBlockStart"
    /\ IF BlockExists(cif.Blocks, ToLower(p.t.val))
       THEN Panic(cifError(p.line, "Data block with name '%s' already exists.",
                           ToLower(p.t.val), <<>>), lx,
                  NoteHeading(aux, "data", ToLower(p.t.val)))
       ELSE /\ cif' = [cif EXCEPT !.Blocks = MapPut(@, ToLower(p.t.val),
                                                   NewDataBlock(ToLower(p.t.val)))]
            /\ p' = [p EXCEPT !.pc = "next", !.ret = "parseDataBlock",
                              !.dname = ToLower(p.t.val), !.inFrame = FALSE]
            /\ aux' = NoteHeading(aux, "data", ToLower(p.t.val))
            /\ UNCHANGED <<other, input, lx, heap, res, w, out, round, first>>

\* parseDataBlock, case itemEOF, itemDataBlockStart: return t
DataBlockReturn ==
    /\ p.pc = "parseDataBlock" /\ p.t.typ \in {"EOF", "DataBlockStart"}
    /\ p' = [p EXCEPT !.pc = "parse"]
    /\ UNCHANGED <<other, input, lx, cif, heap, res, w, out, round, first, aux>>

\* parseDataBlock, case itemSaveFrameStart: parseSaveFrame up to its first
\* p.next()
ParseSaveFrame ==
    /\ p.pc = "parseDataBlock" /\ p.t.typ = "SaveFrameStart"
    /\ IF ToLower(p.t.val) \in DOMAIN cif.Blocks[p.dname].Frames
       THEN Panic(cifError(p.line, "Save frame with name '%s' already exists in data block '%s'.",
                           ToLower(p.t.val), <<>>), lx,
                  NoteHeading(aux, "save", ToLower(p.t.val)))
       ELSE /\ cif' = [cif EXCEPT !.Blocks[p.dname].Frames =
                                     MapPut(@, ToLower(p.t.val), NewBlock(ToLower(p.t.val)))]
            /\ p' = [p EXCEPT !.pc = "next", !.ret = "parseSaveFrame",
                              !.fname = ToLower(p.t.val), !.inFrame = TRUE]
            /\ aux' = NoteHeading(aux, "save", ToLower(p.t.val))
            /\ UNCHANGED <<other, input, lx, heap, res, w, out, round, first>>

\* parseSaveFrame, case itemSaveFrameEnd: return, and parseDataBlock calls
\* p.next()
SaveFrameReturn ==
    /\ p.pc = "parseSaveFrame" /\ p.t.typ = "SaveFrameEnd"
    /\ p' = [p EXCEPT !.pc = "next", !.ret = "parseDataBlock", !.inFrame = FALSE]
    /\ UNCHANGED <<other, input, lx, cif, heap, res, w, out, round, first, aux>>

\* the default case of parseDataBlock and of parseSaveFrame
BlockUnexpected ==
    /\ IF p.pc = "parseDataBlock"
       THEN p.t.typ \notin {"EOF", "DataBlockStart", "SaveFrameStart", "Loop", "DataTag"}
       ELSE p.pc = "parseSaveFrame" /\ p.t.typ \notin {"SaveFrameEnd", "Loop", "DataTag"}
    /\ Panic(cifError(p.line,
                      IF p.pc = "parseDataBlock"
                      THEN "Expected comments, whitespace or a data block heading, but got a '%s' instead."
                      ELSE "Expected a data item or end of save frame delimiter, but got a '%s' instead.",
                      <<>>, <<>>), lx, aux)

\* the names of the columns the header of the loop being read has so far
HeaderNames == {p.vals[i].name : i \in 1..Len(p.vals)}

\* case itemDataTag: parseItemValue up to the p.next() that is the argument
\* of parseValue
ParseItemTag ==
    /\ p.pc \in {"parseDataBlock", "parseSaveFrame"} /\ p.t.typ = "DataTag"
    /\ IF TagExists(CurBlock, ToLower(p.t.val))
       THEN Panic(cifError(p.line, "Data item with name '%s' already exists in block '%s'.",
                           ToLower(p.t.val), <<>>), lx, [aux EXCEPT !.dup = TRUE])
       ELSE /\ p' = [p EXCEPT !.pc = "next", !.ret = "parseItemValue",
                              !.name = ToLower(p.t.val)]
            /\ UNCHANGED <<other, input, lx, cif, heap, res, w, out, round, first, aux>>

\* parseItemValue: b.Items[name] = p.parseValue(...), and the caller's
\* t = p.next()
ParseItemValue ==
    /\ p.pc = "parseItemValue"
    /\ IF parseValuePanic(p.t, p.line, CurBlock.Name, p.name) # NilErr
       THEN Panic(parseValuePanic(p.t, p.line, CurBlock.Name, p.name), lx, aux)
       ELSE /\ cif' = PutCurBlock([CurBlock EXCEPT !.Items = MapPut(@, p.name, parseValue(p.t))])
            /\ p' = [p EXCEPT !.pc = "next", !.ret = BlockLoopPc]
            /\ UNCHANGED <<other, input, lx, heap, res, w, out, round, first, aux>>

\* case itemLoop: parseLoop up to its first p.next()
ParseLoopStart ==
    /\ p.pc \in {"parseDataBlock", "parseSaveFrame"} /\ p.t.typ = "Loop"
    /\ p' = [p EXCEPT !.pc = "next", !.ret = "parseLoop", !.loopLine = p.line,
                      !.vals = <<>>, !.count = 0]
    /\ aux' = [aux EXCEPT !.cells = <<>>, !.lastLoop = 0,
                          !.loopAt = LineOf(input, lx.pos),
                          !.tags = <<>>, !.stream = <<>>]
    /\ UNCHANGED <<other, input, lx, cif, heap, res, w, out, round, first>>

\* parseLoop, one turn of the loop over the data tags
ParseLoopTag ==
    /\ p.pc \in {"parseLoop", "parseLoopTags"} /\ p.t.typ = "DataTag"
    /\ IF TagExists(CurBlock, ToLower(p.t.val))
       THEN Panic(cifError(p.line, "Data item with name '%s' already exists in block '%s'.",
                           ToLower(p.t.val), <<>>), lx, [aux EXCEPT !.dup = TRUE])
       ELSE /\ p' = [p EXCEPT !.vals = Append(@, [name |-> ToLower(p.t.val), strs |-> <<>>,
                                                  typ |-> "DataNone"]),
                              !.pc = "next", !.ret = "parseLoopTags"]
            /\ aux' = [aux EXCEPT !.dup = @ \/ ToLower(p.t.val) \in HeaderNames,
                                  !.cells = Append(@, <<>>),
                                  !.tags = Append(@, p.t.val)]
            /\ UNCHANGED <<other, input, lx, cif, heap, res, w, out, round, first>>

\* parseLoop, the item after the data tags: there must have been a tag, and
\* there must be a value
ParseLoopTagsDone ==
    /\ p.pc \in {"parseLoop", "parseLoopTags"} /\ p.t.typ # "DataTag"
    /\ IF p.pc = "parseLoop"
       THEN Panic(cifError(p.line, "After 'loop_' declaration, there must be at least one data tag, but found '%s' instead.",
                           <<>>, <<>>), lx, aux)
       ELSE IF ~isValueType(p.t.typ)
       THEN Panic(cifError(p.line, "After 'loop_' declaration, there must be at least one data tag and at least one value, but found '%s' instead of a value.",
                           <<>>, <<>>), lx, aux)
       ELSE /\ p' = [p EXCEPT !.pc = "parseLoopValues", !.count = 0]
            /\ UNCHANGED <<other, input, lx, cif, heap, res, w, out, round, first, aux>>

\* LoopColumn with the quotient in the place of the remainder
LoopColumnDiv == ((p.count \div Len(p.vals)) % Len(p.vals)) + 1

\* parseLoop, one turn of the loop over the values
LoopColumn == (p.count % Len(p.vals)) + 1
ParseLoopValue ==
    /\ p.pc = "parseLoopValues" /\ isValueType(p.t.typ)
    /\ p' = [p EXCEPT !.vals[LoopColumn].strs = Append(@, p.t.val),
                      !.vals[LoopColumn].typ = NextColumnType(@, p.t.typ),
                      !.count = @ + 1,
                      !.pc = "next", !.ret = "parseLoopValues"]
    /\ aux' = [aux EXCEPT !.cells[LoopColumn] = Append(@, [typ |-> p.t.typ, val |-> p.t.val]),
                          !.stream = Append(@, [typ |-> p.t.typ, val |-> p.t.val])]
    /\ UNCHANGED <<other, input, lx, cif, heap, res, w, out, round, first>>

\* parseLoop after its loops: the count, convertLoopValues, return t
NoteCount(a) == [a EXCEPT !.badCount = (p.count % Len(p.vals) # 0)]
ParseLoopEnd ==
    /\ p.pc = "parseLoopValues" /\ ~isValueType(p.t.typ)
    /\ IF LoopCountPanic(p.count, p.loopLine, Len(p.vals), p.line) # NilErr
       THEN Panic(LoopCountPanic(p.count, p.loopLine, Len(p.vals), p.line), lx,
                  NoteCount(aux))
       ELSE IF FirstBadColumn(p.vals, p.line, CurBlock.Name) # 0
       THEN Panic(ColumnPanic(p.vals[FirstBadColumn(p.vals, p.line, CurBlock.Name)],
                              p.line, CurBlock.Name), lx, NoteCount(aux))
       ELSE /\ heap' = Append(heap, NewLoop(p.vals))
            /\ cif' = PutCurBlock([CurBlock EXCEPT !.Loops =
                                      BindLoop(@, p.vals, Len(p.vals), Len(heap) + 1)])
            /\ p' = [p EXCEPT !.pc = BlockLoopPc]
            /\ aux' = [NoteCount(aux) EXCEPT !.lastLoop = Len(heap) + 1]
            /\ UNCHANGED <<other, input, lx, res, w, out, round, first>>

(***************************************************************************)
(* Write.  Each range over a map takes the keys left in any order.  The    *)
(* sink takes a text or fails; a failure, like a value valToStr does not   *)
(* support, panics with a writeError, which the deferred function of       *)
(* write recovers without setting err.                                     *)
(***************************************************************************)
SinkOutcomes == {TRUE, FALSE}

\* the deferred function of writer.write: only a cifError becomes the error
RecoverWrite(panicVal) ==
    IF panicVal.type = "cifError" THEN panicVal ELSE NilErr

WritePanic(panicVal, taken, why) ==
    /\ w' = [w EXCEPT !.pc = "done",
                      !.ret = [done |-> TRUE, cif |-> FALSE, err |-> RecoverWrite(panicVal)]]
    /\ out' = out \o taken
    /\ aux' = [aux EXCEPT !.wfail = why]
    /\ UNCHANGED <<other, input, lx, p, cif, heap, res, round, first>>

\* the calls pf(segs[1]), pf(segs[2]), ... : every one is taken and the
\* writer goes on as wNew, or the sink fails at one of them
Pf(segs, wNew) ==
    \E ok \in SinkOutcomes :
        IF ok
        THEN /\ w' = wNew
             /\ out' = out \o Concat(segs)
             /\ UNCHANGED <<other, input, lx, p, cif, heap, res, round, first, aux>>
        ELSE \E k \in 1..Len(segs) :
                 WritePanic(writeError("CIF write: %s"), Concat(SubSeq(segs, 1, k - 1)), "sink")

\* the block writeBlock is given
WBlock ==
    IF w.inFrame THEN cif.Blocks[w.bname].Frames[w.fname] ELSE cif.Blocks[w.bname]

\* a value of a variant the package does not define
cifOther == [k |-> "other", s |-> <<>>, neg |-> FALSE, digs |-> <<>>, e |-> 0]

\* The caller modifies the CIF in place before Write: an item of a data
\* block is given a value of its own type.
PutOther ==
    /\ round = 1 /\ res.done /\ res.cif /\ w.pc = "idle"
    /\ \E b \in DOMAIN cif.Blocks : \E tag \in DOMAIN cif.Blocks[b].Items :
          /\ cif.Blocks[b].Items[tag] # cifOther
          /\ cif' = [cif EXCEPT !.Blocks[b].Items[tag] = cifOther]
    /\ UNCHANGED <<other, input, lx, p, heap, res, w, out, round, first, aux>>

\* writer.write up to its loop
WriteStart ==
    /\ round = 1 /\ res.done /\ res.cif /\ w.pc = "idle"
    /\ Pf(IF Len(cif.Version) > 0
          THEN << <<"#", "\\", "#">> \o cif.Version \o <<"\n">> >>
          ELSE <<>>,
          [w EXCEPT !.pc = "blocks", !.blocks = DOMAIN cif.Blocks])

\* write, one turn of its loop: writeDataBlock up to its loop
WriteDataBlock ==
    /\ w.pc = "blocks"
    /\ \E b \in w.blocks :
          Pf(<< kwData \o cif.Blocks[b].Name \o <<"\n">> >>,
             [w EXCEPT !.pc = "frames", !.blocks = @ \ {b}, !.bname = b,
                       !.inFrame = FALSE, !.frames = DOMAIN cif.Blocks[b].Frames])

\* write after its loop: return nil
WriteReturn ==
    /\ w.pc = "blocks" /\ w.blocks = {}
    /\ w' = [w EXCEPT !.pc = "done", !.ret = [done |-> TRUE, cif |-> FALSE, err |-> NilErr]]
    /\ UNCHANGED <<other, input, lx, p, cif, heap, res, out, round, first, aux>>

\* writeDataBlock, one turn of its loop, up to the loops of writeBlock
WriteFrame ==
    /\ w.pc = "frames"
    /\ \E f \in w.frames :
          Pf(<< kwSave \o cif.Blocks[w.bname].Frames[f].Name \o <<"\n">> >>,
             [w EXCEPT !.pc = "items", !.frames = @ \ {f}, !.fname = f,
                       !.inFrame = TRUE,
                       !.items = DOMAIN cif.Blocks[w.bname].Frames[f].Items])

\* writeDataBlock after its loop: writeBlock(b.Block)
WriteBlockStart ==
    /\ w.pc = "frames" /\ w.frames = {}
    /\ w' = [w EXCEPT !.pc = "items", !.inFrame = FALSE,
                      !.items = DOMAIN cif.Blocks[w.bname].Items]
    /\ UNCHANGED <<other, input, lx, p, cif, heap, res, out, round, first, aux>>

\* writeBlock, one turn of the loop over b.Items
WriteItem ==
    /\ w.pc = "items"
    /\ \E tag \in w.items :
          LET v == WBlock.Items[tag]
          IN  IF valToStrPanic(v) # NilErr
              THEN WritePanic(valToStrPanic(v), <<>>,
                              IF v.k = "string" THEN "char" ELSE "value")
              ELSE Pf(<< <<"_">> \o tag \o <<" ", " ", " ", " ">> \o valToStr(v) \o <<"\n">> >>,
                      [w EXCEPT !.items = @ \ {tag}])

\* writeBlock between its loops
WriteItemsDone ==
    /\ w.pc = "items" /\ w.items = {}
    /\ w' = [w EXCEPT !.pc = "loops", !.loops = DOMAIN WBlock.Loops, !.written = <<>>]
    /\ UNCHANGED <<other, input, lx, p, cif, heap, res, out, round, first, aux>>

\* writeBlock, one turn of the loop over b.Loops
WriteLoop ==
    /\ w.pc = "loops"
    /\ \E tag \in w.loops :
          LET lp == WBlock.Loops[tag]
              segs == writeLoop(heap[lp])
          IN  IF loopWritten(w.written, lp, heap)
              THEN /\ w' = [w EXCEPT !.loops = @ \ {tag}]
                   /\ UNCHANGED <<other, input, lx, p, cif, heap, res, out, round, first, aux>>
              ELSE IF LoopStrsPanic(heap[lp]) # NilErr
              THEN WritePanic(LoopStrsPanic(heap[lp]),
                              Concat(SubSeq(segs, 1, 1 + Len(heap[lp].Values))), "char")
              ELSE Pf(segs, [w EXCEPT !.loops = @ \ {tag}, !.written = Append(@, lp)])

\* writeBlock returns: to writeDataBlock's loop after save_, or to write's
WriteBlockDone ==
    /\ w.pc = "loops" /\ w.loops = {}
    /\ IF w.inFrame
       THEN Pf(<< kwSave \o <<"\n">> >>, [w EXCEPT !.pc = "frames", !.inFrame = FALSE])
       ELSE /\ w' = [w EXCEPT !.pc = "blocks"]
            /\ UNCHANGED <<other, input, lx, p, cif, heap, res, out, round, first, aux>>

\* TestWriter: the text Write wrote is given to Read
ReadBack ==
    /\ round = 1 /\ w.pc = "done" /\ aux.wfail = ""
    /\ round' = 2
    /\ first' = [cif |-> cif, heap |-> heap, ok |-> res.cif]
    /\ input' = out
    /\ lx' = lex(<<>>)
    /\ p' = InitParser
    /\ cif' = NewCIF
    /\ heap' = <<>>
    /\ res' = NoRes
    /\ aux' = InitAux
    /\ UNCHANGED <<other, w, out>>

\* reflect.DeepEqual follows the pointers to the tables; -0 equals 0
NormValue(v) ==
    IF v.k = "float" /\ v.digs = <<"0">> THEN [v EXCEPT !.neg = FALSE] ELSE v
NormLoop(lp) ==
    [Columns |-> lp.Columns,
     Values |-> [i \in DOMAIN lp.Values |->
                    [k |-> lp.Values[i].k,
                     vals |-> [j \in DOMAIN lp.Values[i].vals |->
                                  NormValue(lp.Values[i].vals[j])]]]]
DerefBlock(b, hp) ==
    [Name |-> b.Name,
     Items |-> [t \in DOMAIN b.Items |-> NormValue(b.Items[t])],
     Loops |-> [t \in DOMAIN b.Loops |-> NormLoop(hp[b.Loops[t]])]]
Deref(c, hp) ==
    [Version |-> c.Version,
     Blocks |-> [b \in DOMAIN c.Blocks |->
                   [Name |-> c.Blocks[b].Name,
                    Block |-> DerefBlock(c.Blocks[b], hp),
                    Frames |-> [f \in DOMAIN c.Blocks[b].Frames |->
                                   DerefBlock(c.Blocks[b].Frames[f], hp)]]]]
DeepEqual(c1, h1, c2, h2) == Deref(c1, h1) = Deref(c2, h2)

(***************************************************************************)
(* The texts Read is given.  Three families of small texts, each made of   *)
(* pieces so that every form the parser tells apart is met, and the texts  *)
(* of the package's own tests and documentation.                           *)
(***************************************************************************)
MaxCells == 4
MaxElems == 3
MaxValueLen == 3
StepsPerChar == 4

\* all sequences over S of length at most n
BoundedSeq(S, n) == UNION {[1..k -> S] : k \in 0..n}

\* the pieces of ps, each followed by sep
RECURSIVE JoinSep(_, _)
JoinSep(ps, sep) == IF ps = <<>> THEN <<>> ELSE Head(ps) \o sep \o JoinSep(Tail(ps), sep)

cifSmall ==
    <<"#","\\","#","C","I","F","_","1",".","1","\n","d","a","t","a","_",
      "1","C","T","F","\n","_","e","n","t","r","y",".","i","d"," ","1",
      "c","t","f","\n","_","e","n","t","r","y",".","n","a","m","e"," ",
      "'","a","n","d","r","e","w","'","s"," ","p","e","t","'","\n","l",
      "o","o","p","_"," ","_","a"," ","_","b"," ","\n","1","\n",";","2",
      "\n",";","\n","d","a","t","a","_","a","b","c","d","\n","s","a",
      "v","e","_","w","a","t","\n","_","e","n","t","r","y",".","i","d",
      " ",".","\n","_","e","n","t","r","y",".","n","a","m","e"," ",".",
      "\n","s","a","v","e","_">>

\* the text of ExampleRead
exampleData ==
    <<"#","\\","\\","#","C","I","F","_","1",".","1","\n","d","a",
      "t","a","_","1","C","T","F","\n","_","e","n","t","r","y",".",
      "i","d"," "," ","1","C","T","F","\n","l","o","o","p","_","\n",
      "_","e","n","t","i","t","y","_","p","o","l","y","_","s","e",
      "q",".","n","u","m"," ","\n","_","e","n","t","i","t","y","_",
      "p","o","l","y","_","s","e","q",".","m","o","n","_","i","d",
      " ","\n","1"," "," ","A","L","A","\n","2"," "," ","A","L","A",
      "\n","3"," "," ","G","L","U","\n","4"," "," ","G","L","U",
      "\n","5"," "," ","L","Y","S","\n">>

DataA == <<"d","a","t","a","_","a"," ">>

\* a loop_ in a data block: a header and up to MaxCells values
CellTokens == {<<"1">>, <<"2",".","5">>, <<"x">>, <<".">>, <<"?">>}
LoopHeaders ==
    {<<"l","o","o","p","_"," ","_","p"," ">>,
     <<"l","o","o","p","_"," ","_","p"," ","_","q"," ">>,
     <<"l","o","o","p","_"," ","_","p"," ","_","P"," ">>}
LoopInputs ==
    {DataA \o h \o JoinSep(c, <<" ">>) :
        h \in LoopHeaders, c \in BoundedSeq(CellTokens, MaxCells)}

\* a data block of up to MaxElems elements
Elements ==
    {<<"_","t"," ","1">>, <<"_","T"," ","x">>,
     <<"l","o","o","p","_"," ","_","t"," ","1">>,
     <<"l","o","o","p","_"," ","_","u"," ","_","v"," ",".", " ","2">>,
     <<"s","a","v","e","_","f">>, <<"s","a","v","e","_">>,
     <<"d","a","t","a","_","A">>, <<"#","c">>}
ElementInputs ==
    {DataA \o JoinSep(e, <<"\n">>) : e \in BoundedSeq(Elements, MaxElems)}

\* one item whose value is up to MaxValueLen characters, with or without
\* the version line
ValueChars == {"1", ".", "e", "?", "'", " "}
VersionLine == <<"#","\\","#","C","I","F","_","1",".","1","\n">>
ValueInputs ==
    {v \o DataA \o <<"_","t"," ">> \o x :
        v \in {<<>>, VersionLine}, x \in BoundedSeq(ValueChars, MaxValueLen)}

\* the text of the tests, and the texts with an unexpected character
ExampleInputs ==
    {cifSmall, exampleData,
     DataA \o <<"_","t"," ","?","a","b","c">>,
     <<"d","a","t","a","_","a"," ","_","t">>,
     DataA \o <<"s","a","v","e","_","f"," ","_","t"," ","1"," ","s","a","v","e","_","x">>}

\* a loop_ on a later line of the text, its header and its values on one
\* line or on several
LinePrefixes ==
    {<<"d","a","t","a","_","a","\n">>,
     <<"d","a","t","a","_","a","\n","\n">>,
     <<"d","a","t","a","_","a","\n","_","t"," ","1","\n">>,
     <<"d","a","t","a","_","a"," ","#","c","\n","\n">>}
LineHeaders ==
    {<<"l","o","o","p","_"," ","_","p"," ","_","q","\n">>,
     <<"l","o","o","p","_","\n","_","p","\n","_","q","\n">>}
LineValues ==
    {<<"1"," ","2"," ","3">>, <<"1","\n","2","\n","3","\n">>,
     <<"1"," ","2","\n","3"," ","4","\n">>, <<"1">>}
LineInputs == {a \o h \o v : a \in LinePrefixes, h \in LineHeaders, v \in LineValues}

\* data blocks and save frames whose names differ in nothing or in the case
\* of a letter only: up to MaxElems headings and frames after data_a
BlockPieces ==
    {<<"d","a","t","a","_","A">>, <<"d","a","t","a","_","b">>,
     <<"s","a","v","e","_","f"," ","_","t"," ","1"," ","s","a","v","e","_">>,
     <<"s","a","v","e","_","F"," ","_","T"," ","1"," ","s","a","v","e","_">>}
BlockInputs ==
    {DataA \o JoinSep(e, <<" ">>) : e \in BoundedSeq(BlockPieces, MaxElems)}

\* what may stand before the first data block, with a data block after it
\* or with none
Heads ==
    {<<>>, VersionLine,
     <<"#","\\","#","C","I","F","_","2",".","0","\n">>,
     <<"#","\\","#","C","I","F","_","1",".","1",".","2","\n">>,
     <<"#","\n">>, <<"#","c","\n">>, <<" ","\n">>,
     <<"x"," ">>, <<"_","t"," ","1"," ">>,
     <<"g","l","o","b","a","l","_"," ">>, <<"s","t","o","p","_"," ">>}
HeadInputs ==
    {h \o b : h \in Heads, b \in {<<>>, DataA \o <<"_","t"," ","1">>}}

\* a word where a construct is expected: before the first data block, in
\* the body of a data block, in that of a save frame, among the values of a
\* loop
ItemT == <<"_","t"," ","1"," ">>
FrameF == <<"s","a","v","e","_","f"," ">>
LoopP == <<"l","o","o","p","_"," ","_","p"," ","1"," ">>
ReservedTexts(word) ==
    {word \o <<" ">> \o DataA \o ItemT,
     DataA \o word,
     DataA \o ItemT \o word \o <<" ","_","u"," ","2">>,
     DataA \o FrameF \o word \o <<" ","s","a","v","e","_">>,
     DataA \o FrameF \o ItemT \o word \o <<" ","s","a","v","e","_">>,
     DataA \o LoopP \o word \o <<" ","2">>}
ReservedInputs ==
    ReservedTexts(<<"g","l","o","b","a","l","_">>) \cup ReservedTexts(<<"s","t","o","p","_">>)

\* the word word where the value of an item is expected, and among the values of
\* a loop
ItemValueTexts(word) ==
    {DataA \o <<"_","t"," ">> \o word,
     DataA \o <<"_","t"," ">> \o word \o <<" ","_","u"," ","2">>,
     DataA \o FrameF \o <<"_","t"," ">> \o word \o <<" ","s","a","v","e","_">>}
LoopValueTexts(word) ==
    {DataA \o LoopP \o word, DataA \o LoopP \o word \o <<" ","2">>,
     DataA \o <<"l","o","o","p","_"," ","_","p"," ">> \o word \o <<" ","2">>}
ReservedValueInputs ==
    UNION {ItemValueTexts(word) :
              word \in {<<"l","o","o","p","_">>, <<"L","O","O","P","_">>,
                     <<"s","t","o","p","_">>, <<"S","t","o","p","_">>,
                     <<"g","l","o","b","a","l","_">>, <<"G","L","O","B","A","L","_">>,
                     <<"d","a","t","a","_","x">>, <<"s","a","v","e","_","x">>}}
      \cup UNION {LoopValueTexts(word) :
              word \in {<<"s","t","o","p","_">>, <<"S","T","O","P","_">>,
                     <<"g","l","o","b","a","l","_">>, <<"G","l","o","b","a","l","_">>}}

\* texts with the three keywords in the spelling sp, each keyword where a
\* scanner state looks for it: data_ and loop_ after the values of a loop,
\* save_ at the end of a frame and after the values of a loop in a frame,
\* data_ in the body of a data block
KeywordTexts(sp) ==
    <<sp.d \o <<"a"," ">> \o sp.l \o <<" ","_","p"," ","1"," ">>
          \o sp.d \o <<"b"," ","_","t"," ","1">>,
      sp.d \o <<"a"," ">> \o sp.l \o <<" ","_","p"," ","1"," ">>
          \o sp.l \o <<" ","_","q"," ","2">>,
      sp.d \o <<"a"," ">> \o sp.s \o <<"f"," ","_","t"," ","1"," ">> \o sp.s,
      sp.d \o <<"a"," ">> \o sp.s \o <<"f"," ">> \o sp.l
          \o <<" ","_","p"," ","1"," ">> \o sp.s,
      sp.d \o <<"a"," ","_","t"," ","1"," ">> \o sp.d \o <<"b"," ","_","t"," ","1">> >>
LowerSpelling == [d |-> kwData, s |-> kwSave, l |-> kwLoop]
Spellings ==
    {[LowerSpelling EXCEPT !.d = <<"D","A","T","A","_">>],
     [LowerSpelling EXCEPT !.s = <<"S","A","V","E","_">>],
     [LowerSpelling EXCEPT !.l = <<"L","O","O","P","_">>],
     [d |-> <<"D","a","t","a","_">>, s |-> <<"S","a","v","e","_">>,
      l |-> <<"L","o","o","p","_">>]}
KeywordInputs ==
    {KeywordTexts(sp)[k] : sp \in Spellings, k \in 1..Len(KeywordTexts(LowerSpelling))}

\* the texts a comment line is put into, and the comment lines
CommentBases ==
    {DataA \o <<"_","t"," ","1">>,
     DataA \o <<"l","o","o","p","_"," ","_","p"," ","_","q","\n","1"," ","x">>,
     DataA \o FrameF \o ItemT \o <<"s","a","v","e","_">>}
CommentLines == {<<"#","\n">>, <<"#","c","\n">>}
\* text with the line put in after its first at characters
InsertAt(text, at, line) ==
    SubSeq(text, 1, at) \o line \o SubSeq(text, at + 1, Len(text))

\* the words of a text: its runs of characters between single blanks
RECURSIVE WordLen(_)
WordLen(text) == IF text = <<>> \/ Head(text) = " " THEN 0 ELSE 1 + WordLen(Tail(text))
RECURSIVE Words(_)
Words(text) ==
    IF text = <<>> THEN <<>>
    ELSE <<SubSeq(text, 1, WordLen(text))>>
             \o Words(SubSeq(text, WordLen(text) + 2, Len(text)))

\* the table of a text that is one loop over p, or over p and q, of two or
\* more rows of integers, floats, omitted values and words: n is the number
\* of its columns (0 for any other text), cells its values in text order
RowTokens == {<<"1">>, <<"2",".","5">>, <<".">>, <<"x">>}
RowHeaders ==
    << <<"l","o","o","p","_"," ","_","p"," ">>,
       <<"l","o","o","p","_"," ","_","p"," ","_","q"," ">> >>
RowTable(text) ==
    LET ws == Words(text)
        n == IF Len(ws) >= 4 /\ SubSeq(ws, 1, 3) = << <<"d","a","t","a","_","a">>, kwLoop, <<"_","p">> >>
             THEN (IF ws[4] = <<"_","q">> THEN 2 ELSE 1) ELSE 0
        cells == SubSeq(ws, 3 + n, Len(ws))
    IN  IF /\ n > 0
           /\ \A i \in 1..Len(cells) : cells[i] \in RowTokens
           /\ Len(cells) % n = 0 /\ Len(cells) >= 2 * n
        THEN [n |-> n, cells |-> cells] ELSE [n |-> 0, cells |-> <<>>]
\* the cells with the rows r and r + 1 in each other's place
SwapRows(t, r) ==
    [i \in 1..Len(t.cells) |->
        LET row == ((i - 1) \div t.n) + 1
        IN  IF row = r THEN t.cells[i + t.n]
            ELSE IF row = r + 1 THEN t.cells[i - t.n]
            ELSE t.cells[i]]
RowText(t) == DataA \o RowHeaders[t.n] \o JoinSep(t.cells, <<" ">>)

\* the texts Read is given next to compare the Documents: the text in the
\* lower-case spelling of its keywords; the text with a comment line at its
\* very start or after a white space character; the text of a table with
\* two rows that follow each other in each other's place
Variants(text) ==
    {[kind |-> "case", text |-> KeywordTexts(LowerSpelling)[k]] :
        k \in {j \in 1..Len(KeywordTexts(LowerSpelling)) :
                  \E sp \in Spellings : KeywordTexts(sp)[j] = text}}
    \cup {[kind |-> "comment", text |-> InsertAt(text, at, line)] :
             at \in {i \in 0..Len(text) :
                        text \in CommentBases /\ (i = 0 \/ isWhiteSpace(text[i]))},
             line \in CommentLines}
    \cup {[kind |-> "rows", text |-> RowText([RowTable(text) EXCEPT !.cells = SwapRows(RowTable(text), r)])] :
             r \in {q \in 1..MaxCells :
                       /\ RowTable(text).n > 0
                       /\ (q + 1) * RowTable(text).n <= Len(RowTable(text).cells)}}

\* a quoted string or a semicolon text field the text ends in, as the value
\* of an item and among the values of a loop
OpenValues ==
    {<<"'","x">>, <<"\"","x"," ","y">>, <<"'","x","'","y">>,
     <<"\n",";","x">>, <<"\n",";","x","\n","y">>, <<"\n",";","x","\n">>}
UnterminatedInputs ==
    {DataA \o h \o v :
        h \in {<<"_","t"," ">>, <<"l","o","o","p","_"," ","_","p"," ">>,
               <<"l","o","o","p","_"," ","_","p"," ","1"," ">>,
               FrameF \o <<"l","o","o","p","_"," ","_","p"," ","_","q"," ","1"," ","2"," ">>},
        v \in OpenValues}

\* a save frame heading in the body of a save frame that is still open:
\* right after the heading, after an item, after a loop
NestedInputs ==
    {DataA \o FrameF \o body \o <<"s","a","v","e","_","g">> \o rest :
        body \in {<<>>, ItemT, LoopP},
        rest \in {<<>>, <<" ","s","a","v","e","_">>,
                  <<" ","_","u"," ","2"," ","s","a","v","e","_"," ","s","a","v","e","_">>}}

\* save frames with no item and no table, and save frames that the text or
\* the next data block heading ends before their closing save_
DataB == <<"d","a","t","a","_","b"," ","_","u"," ","2">>
EmptyFrameInputs ==
    {DataA \o pre \o <<"s","a","v","e","_","x">> \o sep \o <<"s","a","v","e","_">> \o post :
        pre \in {<<>>, ItemT}, sep \in {<<" ">>, <<"\n">>},
        post \in {<<>>, <<" ">> \o DataB}}
OpenFrameInputs ==
    {DataA \o FrameF \o body \o rest :
        body \in {<<>>, ItemT, LoopP, ItemT \o LoopP}, rest \in {<<>>, DataB}}

\* string values: s is the content, q a spelling of it the scanner reads as
\* the string s.  Contents that look numeric; contents with one kind of
\* quote, with both, with a line break; contents with a digit besides; contents
\* with a control character; a plain word; the empty string, a sign and a
\* dot, a digit before a double quote and a blank
StringCases ==
    {[s |-> <<"1",".","5">>,
      q |-> <<"'","1",".","5","'">>],
     [s |-> <<"-","1">>,
      q |-> <<"\"","-","1","\"">>],
     [s |-> <<"+",".","5">>,
      q |-> <<"'","+",".","5","'">>],
     [s |-> <<"1","e","5">>,
      q |-> <<"'","1","e","5","'">>],
     [s |-> <<"1",".","5","e","-","3">>,
      q |-> <<"'","1",".","5","e","-","3","'">>],
     [s |-> <<"1","2">>,
      q |-> <<"\n",";","1","2","\n",";">>],
     [s |-> <<"O","'","B">>,
      q |-> <<"\"","O","'","B","\"">>],
     [s |-> <<"a","\"","b">>,
      q |-> <<"'","a","\"","b","'">>],
     [s |-> <<"a","'","b","\"","c">>,
      q |-> <<"'","a","'","b","\"","c","'">>],
     [s |-> <<"a","\"","b","'","c">>,
      q |-> <<"\"","a","\"","b","'","c","\"">>],
     [s |-> <<"a","\n","b">>,
      q |-> <<"\n",";","a","\n","b","\n",";">>],
     [s |-> <<"a","'","b"," ","\"","c">>,
      q |-> <<"'","a","'","b"," ","\"","c","'">>],
     [s |-> <<"1","\n","b">>,
      q |-> <<"\n",";","1","\n","b","\n",";">>],
     [s |-> <<"a","\"","1">>,
      q |-> <<"'","a","\"","1","'">>],
     [s |-> <<"x","'","1">>,
      q |-> <<"\"","x","'","1","\"">>],
     [s |-> <<"a","^A","b">>,
      q |-> <<"'","a","^A","b","'">>],
     [s |-> <<"^A">>,
      q |-> <<"\"","^A","\"">>],
     [s |-> <<"a","b">>,
      q |-> <<"'","a","b","'">>],
     [s |-> <<>>,
      q |-> <<"'","'">>],
     [s |-> <<"-",".">>,
      q |-> <<"'","-",".","'">>],
     [s |-> <<"1","\""," ","x">>,
      q |-> <<"'","1","\""," ","x","'">>]}
\* the texts with the string as the value of the item t and as the one value
\* of the loop over p, and the Documents Read builds of them
ItemText(c) == DataA \o <<"_","t"," ">> \o c.q
LoopText(c) == DataA \o <<"l","o","o","p","_"," ","_","p"," ">> \o c.q
StringInputs == {ItemText(c) : c \in StringCases} \cup {LoopText(c) : c \in StringCases}
ItemDoc(s) ==
    [NewCIF EXCEPT !.Blocks =
        MapPut(@, <<"a">>, [NewDataBlock(<<"a">>) EXCEPT
                               !.Items = MapPut(@, <<"t">>, cifString(s))])]
LoopDoc(s) ==
    [NewCIF EXCEPT !.Blocks =
        MapPut(@, <<"a">>, [NewDataBlock(<<"a">>) EXCEPT !.Loops = MapPut(@, <<"p">>, 1)])]
LoopHeap(s) ==
    << [Columns |-> MapPut(EmptyMap, <<"p">>, 0),
        Values |-> << AsValues("strings", << cifString(s) >>) >>] >>

\* values that begin as a number: run is the value, at the place of its
\* first character that cannot continue the number read so far
FallbackCases ==
    {[run |-> <<"1","2","a">>, at |-> 3],
     [run |-> <<"1",".","5",".","3">>, at |-> 4],
     [run |-> <<"+","x">>, at |-> 2],
     [run |-> <<"1","e","5","x">>, at |-> 4],
     [run |-> <<"-",".","x">>, at |-> 3],
     [run |-> <<"1","e","+","x">>, at |-> 4],
     [run |-> <<"1","^A">>, at |-> 2],
     [run |-> <<"1","a","^A">>, at |-> 3],
     [run |-> <<"+","^A">>, at |-> 2],
     [run |-> <<"1",".","^A">>, at |-> 3]}
FallbackText(c, rest) == DataA \o <<"_","t"," ">> \o c.run \o rest
FallbackInputs == {FallbackText(c, rest) : c \in FallbackCases, rest \in {<<>>, <<"\n">>}}

\* semicolon text fields with a character outside the printable set, on the
\* first line and on a later one, closed and left open at the end of the
\* text, as the value of an item and as a value of a loop
BadFields ==
    {<<"\n",";","a","^A","\n",";">>, <<"\n",";","^A","\n",";">>,
     <<"\n",";","a","\n","^A","b","\n",";">>, <<"\n",";","a","\n","b","^A","\n",";">>,
     <<"\n",";","a","^A">>, <<"\n",";","a","\n","^A">>}
BadFieldInputs ==
    {DataA \o pre \o f :
        pre \in {<<"_","t">>, <<"l","o","o","p","_"," ","_","p"," ","1">>},
        f \in BadFields}

Inputs ==
    LoopInputs \cup ElementInputs \cup ValueInputs \cup ExampleInputs
        \cup LineInputs \cup BlockInputs \cup HeadInputs
        \cup ReservedInputs \cup ReservedValueInputs
        \cup KeywordInputs \cup CommentBases \cup UnterminatedInputs
        \cup NestedInputs \cup EmptyFrameInputs \cup OpenFrameInputs
        \cup StringInputs \cup FallbackInputs \cup BadFieldInputs

\* Read is called on a second text, after the Document and the outcome of the
\* first call are put aside
ReadVariant ==
    /\ round = 1 /\ res.done /\ w.pc = "idle"
    /\ \A b \in DOMAIN cif.Blocks : \A tag \in DOMAIN cif.Blocks[b].Items :
          cif.Blocks[b].Items[tag] # cifOther
    /\ \E v \in Variants(input) :
          /\ input' = v.text
          /\ aux' = [InitAux EXCEPT !.variant = v.kind]
    /\ round' = 3
    /\ first' = [cif |-> cif, heap |-> heap, ok |-> res.cif]
    /\ lx' = lex(<<>>)
    /\ p' = InitParser
    /\ cif' = NewCIF
    /\ heap' = <<>>
    /\ res' = NoRes
    /\ UNCHANGED <<other, w, out>>

Init ==
    /\ input \in Inputs
    /\ lx = lex(<<>>)
    /\ p = InitParser
    /\ cif = NewCIF
    /\ heap = <<>>
    /\ res = NoRes
    /\ w = InitWriter
    /\ out = <<>>
    /\ round = 1
    /\ first = [cif |-> NewCIF, heap |-> <<>>, ok |-> FALSE]
    /\ aux = InitAux
    /\ other = NoOther

Next ==
    \/ ReadStart
    \/ NextItem
    \/ ParseEOF
    \/ ParseVersion
    \/ ParseDataBlock
    \/ DataBlockReturn
    \/ ParseSaveFrame
    \/ SaveFrameReturn
    \/ BlockUnexpected
    \/ ParseItemTag
    \/ ParseItemValue
    \/ ParseLoopStart
    \/ ParseLoopTag
    \/ ParseLoopTagsDone
    \/ ParseLoopValue
    \/ ParseLoopEnd
    \/ PutOther
    \/ WriteStart
    \/ WriteDataBlock
    \/ WriteReturn
    \/ WriteFrame
    \/ WriteBlockStart
    \/ WriteItem
    \/ WriteItemsDone
    \/ WriteLoop
    \/ WriteBlockDone
    \/ ReadBack
    \/ ReadVariant

Spec == Init /\ [][Next]_vars

(***************************************************************************)
(* Two calls of Read at the same time.  The first is the call the parser   *)
(* above runs, a state function at a time; the second is in its first      *)
(* call of nextItem.  The package-level variables pred and emitted are one *)
(* for both: what a state function of one lexer leaves in them is what the *)
(* other lexer finds.                                                      *)
(***************************************************************************)
\* lx.emitted points to the package-level item
SharedItem(e) == e # NoItem /\ e.typ # "Error"

\* the lexer o after a state function of another lexer has returned and left
\* that lexer as after
Seen(o, after) ==
    [o EXCEPT !.pred = after.pred,
              !.item = after.item,
              !.emitted = IF SharedItem(@) THEN after.item ELSE @]

\* the loop of nextItem goes on
Scanning(l) == l.emitted = NoItem /\ l.state # "nil" /\ ~l.panicked

\* nextItem, one turn of its loop: lx.state = lx.state(lx)
LexStep ==
    /\ p.pc = "next" /\ Scanning(lx)
    /\ lx' = StateFn(lx)
    /\ other' = IF round = 1 THEN [other EXCEPT !.lx = Seen(@, StateFn(lx))] ELSE other
    /\ UNCHANGED <<input, p, cif, heap, res, w, out, round, first, aux>>

\* nextItem returns, and parser.next with it unless the item is a comment
LexReturn ==
    /\ p.pc = "next" /\ ~Scanning(lx)
    /\ IF ~lx.panicked /\ nextItemOf(lx).typ = "Comment"
       THEN /\ lx' = nextItemLexer(lx)
            /\ UNCHANGED <<other, input, p, cif, heap, res, w, out, round, first, aux>>
       ELSE Deliver(Returned(lx, p.line))

\* one turn of the loop of nextItem in the second call
OtherStep ==
    /\ round = 1 /\ p.pc # "start" /\ ~res.done /\ Scanning(other.lx)
    /\ other' = [other EXCEPT !.lx = StateFn(@)]
    /\ lx' = Seen(lx, StateFn(other.lx))
    /\ UNCHANGED <<input, p, cif, heap, res, w, out, round, first, aux>>

\* the first call has returned: its text is read once more, with no call
\* beside
ReadAlone ==
    /\ round = 1 /\ res.done /\ other.input # <<>>
    /\ round' = 3
    /\ other' = [other EXCEPT !.res = res]
    /\ first' = [cif |-> cif, heap |-> heap, ok |-> res.cif]
    /\ lx' = lex(<<>>)
    /\ p' = InitParser
    /\ cif' = NewCIF
    /\ heap' = <<>>
    /\ res' = NoRes
    /\ aux' = InitAux
    /\ UNCHANGED <<input, w, out>>

\* the texts of the two calls
ConcTexts ==
    {VersionLine \o DataA \o ItemT \o FrameF \o <<"_","u"," ","2"," ","s","a","v","e","_"," ">>
         \o <<"l","o","o","p","_"," ","_","p"," ","_","q"," ","1"," ","2">>,
     DataA \o <<"_","t","\n",";","a"," ","b","\n",";">>,
     DataA \o FrameF \o ItemT,
     DataA \o <<"l","o","o","p","_"," ","1">>}
ConcOthers ==
    {<<"d","a","t","a","_","b"," ","_","u"," ","2">>,
     <<"#","c","\n","d","a","t","a","_","b">>,
     <<" ","d","a","t","a","_","b">>}

InitConc ==
    /\ input \in ConcTexts
    /\ \E y \in ConcOthers : other = [input |-> y, lx |-> lex(y), res |-> NoRes]
    /\ lx = lex(<<>>)
    /\ p = InitParser
    /\ cif = NewCIF
    /\ heap = <<>>
    /\ res = NoRes
    /\ w = InitWriter
    /\ out = <<>>
    /\ round = 1
    /\ first = [cif |-> NewCIF, heap |-> <<>>, ok |-> FALSE]
    /\ aux = InitAux

NextConc ==
    \/ ReadStart
    \/ LexStep
    \/ LexReturn
    \/ OtherStep
    \/ ParseEOF
    \/ ParseVersion
    \/ ParseDataBlock
    \/ DataBlockReturn
    \/ ParseSaveFrame
    \/ SaveFrameReturn
    \/ BlockUnexpected
    \/ ParseItemTag
    \/ ParseItemValue
    \/ ParseLoopStart
    \/ ParseLoopTag
    \/ ParseLoopTagsDone
    \/ ParseLoopValue
    \/ ParseLoopEnd
    \/ ReadAlone

SpecConc == InitConc /\ [][NextConc]_vars

(***************************************************************************)
(* The scanner alone: a caller that calls nextItem until it returns the    *)
(* end of input, whatever the items are.                                   *)
(***************************************************************************)
\* after the tag of an item: line breaks, text field and comment marks,
\* a character that is not printable
TextChars == {"\n", ";", "#", "x", " ", "^A"}
TextInputs ==
    {DataA \o <<"_","t">> \o x : x \in BoundedSeq(TextChars, MaxValueLen)}
\* two save frames one after the other, in one data block and in two
TwoFrames == FrameF \o ItemT \o kwSave \o <<" ">> \o <<"s","a","v","e","_","g"," ">>
                 \o LoopP \o kwSave
FrameSeqInputs ==
    {DataA \o TwoFrames, DataA \o TwoFrames \o <<" ">> \o DataB,
     DataA \o TwoFrames \o <<" ">> \o <<"d","a","t","a","_","b"," ">> \o TwoFrames}
ScanInputs ==
    ElementInputs \cup FrameSeqInputs \cup
    TextInputs \cup ValueInputs \cup ExampleInputs \cup BlockInputs
        \cup LineInputs \cup HeadInputs \cup ReservedInputs \cup ReservedValueInputs
        \cup KeywordInputs \cup CommentBases \cup UnterminatedInputs
        \cup NestedInputs \cup EmptyFrameInputs \cup OpenFrameInputs \cup StringInputs

MarkTypes == {"DataBlockStart", "SaveFrameStart", "SaveFrameEnd"}

\* nextItem, one turn of its loop
ScanStep ==
    /\ p.pc = "scan" /\ Scanning(lx)
    /\ lx' = StateFn(lx)
    /\ aux' = [aux EXCEPT !.steps = @ + 1]
    /\ UNCHANGED <<other, input, p, cif, heap, res, w, out, round, first>>

\* nextItem returns an item, and the caller calls it again
ScanReturn ==
    /\ p.pc = "scan" /\ ~Scanning(lx) /\ ~lx.panicked /\ lx.state # "nil"
    /\ lx' = nextItemLexer(lx)
    /\ p' = [p EXCEPT !.t = nextItemOf(lx)]
    /\ aux' = [aux EXCEPT !.steps = @ + 1,
                          !.marks = IF nextItemOf(lx).typ \in MarkTypes
                                    THEN Append(@, nextItemOf(lx).typ) ELSE @]
    /\ UNCHANGED <<other, input, cif, heap, res, w, out, round, first>>

\* nextItem returns the end of input, or emit panics
ScanEnd ==
    /\ p.pc = "scan" /\ (lx.panicked \/ lx.state = "nil")
    /\ lx' = nextItemLexer(lx)
    /\ p' = [p EXCEPT !.pc = "done",
                      !.t = IF lx.panicked THEN NoItem ELSE nextItemOf(lx)]
    /\ UNCHANGED <<other, input, cif, heap, res, w, out, round, first, aux>>

InitScan ==
    /\ input \in ScanInputs
    /\ lx = lex(input)
    /\ p = [InitParser EXCEPT !.pc = "scan"]
    /\ cif = NewCIF
    /\ heap = <<>>
    /\ res = NoRes
    /\ w = InitWriter
    /\ out = <<>>
    /\ round = 1
    /\ first = [cif |-> NewCIF, heap |-> <<>>, ok |-> FALSE]
    /\ aux = InitAux
    /\ other = NoOther

NextScan ==
    \/ ScanStep
    \/ ScanReturn
    \/ ScanEnd

SpecScan == InitScan /\ [][NextScan]_vars

(***************************************************************************)
(* The methods of a Value called on a value of an item.  The value is the  *)
(* one parseValue makes of a value item, held by the item _v of block a;   *)
(* the caller calls String, Int, Float and Raw on it, in any order and any *)
(* number of times.                                                        *)
(***************************************************************************)
IntegerTexts ==
    {<<"0">>, <<"1">>, <<"-","1">>, <<"+","1">>, <<"1","2">>,
     <<"0","0","7">>, <<"-","0">>, <<"1","0","0">>, <<"-","2","5","0">>,
     MaxInt64, <<"-">> \o MinInt64}
FloatTexts ==
    {<<"1",".","5">>, <<"-","1",".","5">>, <<".","5">>,
     <<"-","0",".","5">>, <<"1","e","2">>, <<"1",".","5","e","-","3">>,
     <<"2",".">>, <<"0",".","0">>, <<"-","0",".","0">>,
     <<"1","e","3","0">>, <<"-","1","e","3","0">>,
     <<"0",".","9","9","9","9","9","9">>, <<"1","2",".","7","5">>,
     <<"1","e","1","9">>, <<"-","9",".","5">>, <<"-","1","e","1","9">>}
StringTexts ==
    {<<>>, <<"a","b">>, <<"1","x">>, <<"1","2">>, <<"0">>}
ValueItems ==
    {[typ |-> "DataInteger", val |-> x, line |-> 1] : x \in IntegerTexts}
        \cup {[typ |-> "DataFloat", val |-> x, line |-> 1] : x \in FloatTexts}
        \cup {[typ |-> "DataString", val |-> x, line |-> 1] : x \in StringTexts}
        \cup {[typ |-> "DataOmitted", val |-> <<".">>, line |-> 1],
              [typ |-> "DataMissing", val |-> <<"?">>, line |-> 1]}
ValueDoc(v) ==
    [NewCIF EXCEPT !.Blocks =
        MapPut(EmptyMap, <<"a">>,
               [NewDataBlock(<<"a">>) EXCEPT
                   !.Items = MapPut(EmptyMap, <<"_","v">>, v)])]
\* the value the methods are called on
TheValue == cif.Blocks[<<"a">>].Items[<<"_","v">>]

CallString ==
    /\ p.pc = "value"
    /\ aux' = [aux EXCEPT !.call = "String", !.ret = ValueString(TheValue)]
    /\ UNCHANGED <<other, input, lx, p, cif, heap, res, w, out, round, first>>

CallInt ==
    /\ p.pc = "value"
    /\ \E r \in ValueInt(TheValue) :
          aux' = [aux EXCEPT !.call = "Int", !.ret = r]
    /\ UNCHANGED <<other, input, lx, p, cif, heap, res, w, out, round, first>>

CallFloat ==
    /\ p.pc = "value"
    /\ aux' = [aux EXCEPT !.call = "Float", !.ret = ValueFloat(TheValue)]
    /\ UNCHANGED <<other, input, lx, p, cif, heap, res, w, out, round, first>>

CallRaw ==
    /\ p.pc = "value"
    /\ aux' = [aux EXCEPT !.call = "Raw", !.ret = ValueRaw(TheValue)]
    /\ UNCHANGED <<other, input, lx, p, cif, heap, res, w, out, round, first>>

InitValue ==
    /\ \E t \in ValueItems :
          /\ parseValuePanic(t, 1, <<"a">>, <<"_","v">>) = NilErr
          /\ input = t.val
          /\ p = [InitParser EXCEPT !.pc = "value", !.t = t]
          /\ cif = ValueDoc(parseValue(t))
    /\ lx = [lex(input) EXCEPT !.state = "nil"]
    /\ heap = <<>>
    /\ res = NoRes
    /\ w = InitWriter
    /\ out = <<>>
    /\ round = 1
    /\ first = [cif |-> NewCIF, heap |-> <<>>, ok |-> FALSE]
    /\ aux = InitAux
    /\ other = NoOther

NextValue ==
    \/ CallString
    \/ CallInt
    \/ CallFloat
    \/ CallRaw

SpecValue == InitValue /\ [][NextValue]_vars

(***************************************************************************)
(* The claims.                                                             *)
(***************************************************************************)
\* the blocks of the CIF: its data blocks and their save frames
AllBlocks ==
    {cif.Blocks[b] : b \in DOMAIN cif.Blocks}
        \cup UNION {{cif.Blocks[b].Frames[f] : f \in DOMAIN cif.Blocks[b].Frames} :
                       b \in DOMAIN cif.Blocks}

\* the table the last finished parseLoop built, and the value items it read
LastLoop == heap[aux.lastLoop]
CellTyps(i) == {aux.cells[i][j].typ : j \in 1..Len(aux.cells[i])}
NonNullTyps(i) == {t \in CellTyps(i) : ~isNull(t)}
\* the kind the item types typs promote to
Promoted(typs) ==
    IF typs = {"DataInteger"} THEN "ints"
    ELSE IF typs \subseteq {"DataInteger", "DataFloat"} THEN "floats"
    ELSE "strings"

\* C1: whenever Read succeeds with a Document D, Write(D) succeeds and Read
\* of the text it wrote succeeds with a Document equal to D, for every order
\* in which Write may range over the maps of D.
C1_RoundTrip ==
    (round = 2 /\ res.done) =>
        /\ w.ret.err = NilErr
        /\ res.cif /\ res.err = NilErr
        /\ DeepEqual(first.cif, first.heap, cif, heap)

\* C2: when the scanner has met an unexpected character, Read returns a
\* non-nil error and no Document.
C2_NoTruncatedDocument ==
    (res.done /\ aux.errf # NoItem) => (~res.cif /\ res.err # NilErr)

\* C3: when a scanner state has reported an error, the item nextItem returns
\* next is the Error item, with its message and line, and every later item
\* is the end of input.
C3_ScannerFailure ==
    aux.errf # NoItem => (aux.errfRet = aux.errf /\ aux.later \subseteq {"EOF"})

\* C4: when the sink has failed, or an item holds a value that is no string,
\* int or float, Write returns a non-nil error.
C4_WriteSurfacesFailures ==
    (w.pc = "done" /\ aux.wfail # "") => w.ret.err # NilErr

\* C5: every table of the Document has all its columns of one length L >= 1,
\* and the number of values parseLoop consumed for a table is L times the
\* number of its columns.
C5_TableShape ==
    /\ \A id \in 1..Len(heap) :
          /\ Len(heap[id].Values) >= 1
          /\ Len(heap[id].Values[1].vals) >= 1
          /\ \A c \in 1..Len(heap[id].Values) :
                Len(heap[id].Values[c].vals) = Len(heap[id].Values[1].vals)
    /\ aux.lastLoop # 0 =>
          p.count = Len(LastLoop.Values[1].vals) * Len(LastLoop.Values)

\* C5 witness: Read has returned a table of two columns of two rows each, the
\* four cells of its loop consumed
C5_Witness ==
    /\ res.done /\ res.cif /\ aux.lastLoop # 0 /\ p.count = 4
    /\ Len(LastLoop.Values) = 2
    /\ Len(LastLoop.Values[1].vals) = 2

\* C6: when a tag is declared a second time in one block, whatever the case
\* of its letters, Read returns an error.
C6_TagUniqueness ==
    (res.done /\ aux.dup) => (~res.cif /\ res.err # NilErr)

\* C7: a column none of whose cells is '.' or '?' is of the kind its cells
\* promote to: ints when all are integers, floats when all are integers or
\* floats and one is a float, strings otherwise.
C7_ColumnPromotion ==
    aux.lastLoop # 0 =>
        \A i \in 1..Len(LastLoop.Values) :
            CellTyps(i) = NonNullTyps(i) => LastLoop.Values[i].k = Promoted(CellTyps(i))

\* C7 witness: a table has a column of an integer and a float, resolved to
\* floats
C7_Witness ==
    /\ aux.lastLoop # 0
    /\ \E i \in 1..Len(LastLoop.Values) :
          /\ CellTyps(i) = {"DataInteger", "DataFloat"}
          /\ LastLoop.Values[i].k = "floats"

\* C8: the '.' and '?' cells of a column do not change its kind, wherever
\* they stand: a column with such cells is of the kind its other cells
\* promote to.
C8_NullsKeepKind ==
    aux.lastLoop # 0 =>
        \A i \in 1..Len(LastLoop.Values) :
            NonNullTyps(i) # {} => LastLoop.Values[i].k = Promoted(NonNullTyps(i))

C10_SharedTable ==
    (res.done /\ res.cif) =>
        /\ \A b \in AllBlocks : \A t \in DOMAIN b.Loops :
              \A c \in DOMAIN heap[b.Loops[t]].Columns :
                  c \in DOMAIN b.Loops /\ b.Loops[c] = b.Loops[t]
        /\ \A id \in 1..Len(heap) :
              \E b \in AllBlocks : \E t \in DOMAIN b.Loops : b.Loops[t] = id

\* C10 witness: Read has returned a block with two tags bound to one table
C10_Witness ==
    /\ res.done /\ res.cif
    /\ \E b \in AllBlocks : \E t, c \in DOMAIN b.Loops :
          t # c /\ b.Loops[t] = b.Loops[c]

\* C11: when the number of values read after a loop_ header is no multiple of
\* the number of its tags, Read returns an error, and the line its message
\* gives as the start of the loop is the line of the loop_ keyword.
C11_MalformedTable ==
    aux.badCount =>
        /\ res.done /\ ~res.cif
        /\ res.err.type = "cifError"
        /\ res.err.nums = <<p.count, aux.loopAt, Len(p.vals)>>

\* C11 witness: a loop_ on the third line of the text had three values for
\* two tags
C11_Witness ==
    /\ aux.badCount /\ res.done
    /\ aux.loopAt = 3 /\ p.count = 3 /\ Len(p.vals) = 2

\* C12: when a data block heading has the name, letter case aside, of an
\* earlier one, or a save frame that of an earlier frame of the same data
\* block, Read returns an error that names it; Read reports a name as already
\* there in no other case, so a frame name used in two data blocks is accepted.
C12_BlockNamesUnique ==
    /\ aux.dupName # <<>> =>
           /\ res.done /\ ~res.cif
           /\ res.err.type = "cifError" /\ res.err.name = aux.dupName
    /\ (res.done /\ res.err.msg \in
            {"Data block with name '%s' already exists.",
             "Save frame with name '%s' already exists in data block '%s'."})
           => aux.dupName # <<>>

\* C12 witness: the second of two frames f and F in one data block was refused
C12_Witness ==
    /\ res.done /\ aux.dupName = <<"f">> /\ p.t.val = <<"F">>
    /\ res.err.msg = "Save frame with name '%s' already exists in data block '%s'."

\* k is the identifier x of the text with its capital letters made small
LowerForm(k, x) ==
    Len(k) = Len(x) /\ \A i \in 1..Len(x) : k[i] = ToLowerChar(x[i])
\* k is the lower-cased form of an identifier of the kind typ read from the text
IsLowered(k, typ) == \E x \in aux.idents : x.typ = typ /\ LowerForm(k, x.val)

\* C13: in a Document Read returns, every key of Blocks, Frames, Items, Loops
\* and of a table's Columns, and every block's Name, is an identifier of the
\* text in lower case: a tag without its underscore, a name without data_ or
\* save_.
C13_LowerCaseKeys ==
    (res.done /\ res.cif) =>
        /\ \A b \in DOMAIN cif.Blocks :
              /\ IsLowered(b, "DataBlockStart") /\ cif.Blocks[b].Name = b
              /\ \A f \in DOMAIN cif.Blocks[b].Frames :
                    IsLowered(f, "SaveFrameStart") /\ cif.Blocks[b].Frames[f].Name = f
        /\ \A b \in AllBlocks :
              /\ \A t \in DOMAIN b.Items : IsLowered(t, "DataTag")
              /\ \A t \in DOMAIN b.Loops : IsLowered(t, "DataTag")
        /\ \A id \in 1..Len(heap) :
              \A t \in DOMAIN heap[id].Columns : IsLowered(t, "DataTag")

\* C13 witness: Read has returned a Document in which the item of a tag
\* written _T has the key t, and a frame written save_F has the key f
C13_Witness ==
    /\ res.done /\ res.cif
    /\ [typ |-> "DataTag", val |-> <<"T">>] \in aux.idents
    /\ \E b \in AllBlocks : <<"t">> \in DOMAIN b.Items
    /\ [typ |-> "SaveFrameStart", val |-> <<"F">>] \in aux.idents
    /\ \E b \in DOMAIN cif.Blocks : <<"f">> \in DOMAIN cif.Blocks[b].Frames

\* what a value item of the text is as a cell of a column of kind k
CellValue(k, it) ==
    CASE k = "ints" ->
             IF isNull(it.typ) THEN cifInt(FALSE, <<"0">>) ELSE Atoi(it.val)
      [] k = "floats" ->
             IF isNull(it.typ) THEN cifFloat(FALSE, <<"0">>, 0) ELSE ParseFloat(it.val)
      [] OTHER -> cifString(it.val)

\* C14: the table of a loop of n tags holds as many columns, and row r of
\* column c is the value at place (r - 1) * n + c of the values read, so a
\* column holds every n-th value in the order of the text; where the tags of
\* the header differ, the tag declared c-th stands for column c - 1.
C14_RowMajor ==
    aux.lastLoop # 0 =>
        /\ Len(LastLoop.Values) = Len(aux.tags)
        /\ \A c \in 1..Len(aux.tags) :
              /\ Len(LastLoop.Values[c].vals) * Len(aux.tags) = Len(aux.stream)
              /\ \A r \in 1..Len(LastLoop.Values[c].vals) :
                    LastLoop.Values[c].vals[r] =
                        CellValue(LastLoop.Values[c].k,
                                  aux.stream[(r - 1) * Len(aux.tags) + c])
        /\ (\A c, d \in 1..Len(aux.tags) :
                c # d => ~LowerForm(ToLower(aux.tags[c]), aux.tags[d]))
              => \A c \in 1..Len(aux.tags) :
                    \E k \in DOMAIN LastLoop.Columns :
                       LowerForm(k, aux.tags[c]) /\ LastLoop.Columns[k] = c - 1

\* C14 witness: the table of ExampleRead, five numbers and five residues
C14_Witness ==
    /\ aux.lastLoop # 0 /\ Len(aux.stream) = 10
    /\ LastLoop.Values[1] =
           AsValues("ints", <<cifInt(FALSE, <<"1">>), cifInt(FALSE, <<"2">>),
                              cifInt(FALSE, <<"3">>), cifInt(FALSE, <<"4">>),
                              cifInt(FALSE, <<"5">>)>>)
    /\ LastLoop.Values[2] =
           AsValues("strings", <<cifString(<<"A","L","A">>), cifString(<<"A","L","A">>),
                                 cifString(<<"G","L","U">>), cifString(<<"G","L","U">>),
                                 cifString(<<"L","Y","S">>)>>)

\* the first line of a text, and whether a text begins with the text pre
FirstLine(text) ==
    SubSeq(text, 1, Cardinality({i \in 1..Len(text) :
                                    \A j \in 1..i : ~isNL(text[j])}))
BeginsWith(text, pre) ==
    Len(text) >= Len(pre) /\ SubSeq(text, 1, Len(pre)) = pre

RECURSIVE SkipBlanks(_)
SkipBlanks(text) ==
    IF text = <<>> THEN <<>>
    ELSE IF isWhiteSpace(Head(text)) THEN SkipBlanks(Tail(text))
    ELSE IF Head(text) = commentStart
    THEN SkipBlanks(SubSeq(text, Len(FirstLine(text)) + 1, Len(text)))
    ELSE text
\* something that is no data_ heading comes first in the text
TextBeforeData(text) ==
    /\ SkipBlanks(text) # <<>>
    /\ ~BeginsWith([i \in 1..Len(SkipBlanks(text)) |-> ToLowerChar(SkipBlanks(text)[i])],
                   <<"d","a","t","a","_">>)

\* C16: when something other than white space, comments and the version line
\* stands before the first data_ heading of the text, or the text has such a
\* thing and no data block, Read returns an error and no Document.
C16_TextBeforeData ==
    (res.done /\ TextBeforeData(input)) => (~res.cif /\ res.err # NilErr)

\* C17: a text with global_ or stop_ where a construct is expected, be it
\* before the first data block, in the body of a data block or of a save
\* frame, or among the values of a loop, makes Read return an error.
C17_GlobalStopRejected ==
    (res.done /\ input \in ReservedInputs) => (~res.cif /\ res.err # NilErr)

\* C18: a text with loop_, stop_ or global_ in any letter case, or a word that
\* begins with data_ or save_, where the value of an item is expected, or
\* with stop_ or global_ among the values of a loop, makes Read return an
\* error, so that no Document holds the word as a value.
C18_ReservedValues ==
    (res.done /\ input \in ReservedValueInputs) => (~res.cif /\ res.err # NilErr)

\* C19: a text whose keywords data_, save_ and loop_ have capital letters is
\* read as the text with the keywords in small letters is: Read accepts both
\* or neither, and two Documents are equal.
C19_KeywordsAnyCase ==
    (round = 3 /\ aux.variant = "case" /\ res.done) =>
        /\ res.cif = first.ok
        /\ res.cif => DeepEqual(first.cif, first.heap, cif, heap)

\* C20: for a text Read accepts, the text with a comment line, empty or not,
\* put at its very start or after white space between two tokens is accepted
\* too, and the Document is equal.
C20_CommentsTransparent ==
    (round = 3 /\ aux.variant = "comment" /\ first.ok /\ res.done) =>
        /\ res.cif
        /\ DeepEqual(first.cif, first.heap, cif, heap)

\* the messages of the scanner for a quoted string and for a semicolon text
\* field the end of the text is met in
OpenAtEof ==
    {"Expected end of quoted string, but got EOF.",
     "Expected a semi-colon terminator, but got EOF."}

\* C21: when the end of the input is reached inside a quoted string or a
\* semicolon text field, be it the value of an item or a value of a loop,
\* Read returns an error and no Document.
C21_Unterminated ==
    (res.done /\ aux.errf # NoItem /\ aux.errf.val[1] \in OpenAtEof) =>
        (~res.cif /\ res.err # NilErr)

\* C22: for a text with a save frame heading in the body of a save frame
\* that is still open, Read returns an error and no Document.
C22_NoNestedFrames ==
    (round = 1 /\ res.done /\ input \in NestedInputs) =>
        (~res.cif /\ res.err # NilErr)

\* C23: a save frame heading save_x with the closing save_ right after it
\* gives a Document whose data block has the frame x with no items and no
\* tables; a save frame that the next data block heading or the end of the
\* text ends before its closing save_ makes Read return an error.
C23_SaveFrameGrammar ==
    (round = 1 /\ res.done) =>
        /\ input \in EmptyFrameInputs =>
              /\ res.cif /\ res.err = NilErr
              /\ <<"x">> \in DOMAIN cif.Blocks[<<"a">>].Frames
              /\ cif.Blocks[<<"a">>].Frames[<<"x">>].Items = EmptyMap
              /\ cif.Blocks[<<"a">>].Frames[<<"x">>].Loops = EmptyMap
        /\ input \in OpenFrameInputs => (~res.cif /\ res.err # NilErr)

\* the numeric grammar: an optional sign, then digits with an optional
\* fraction or a fraction of one digit at least, then an optional exponent
NumericText(str) ==
    LET u == Unsigned(str)
        ni == DigitRun(u)
        r1 == SubSeq(u, ni + 1, Len(u))
        dot == r1 # <<>> /\ Head(r1) = "."
        nf == IF dot THEN DigitRun(Tail(r1)) ELSE 0
        r2 == IF dot THEN SubSeq(r1, nf + 2, Len(r1)) ELSE r1
        x == IF r2 = <<>> THEN <<>> ELSE Unsigned(Tail(r2))
    IN  /\ ni + nf >= 1
        /\ \/ r2 = <<>>
           \/ Head(r2) \in {"e", "E"} /\ x # <<>> /\ DigitRun(x) = Len(x)

\* what Write has written when it has returned and the sink took it all: the
\* heading of data block a, then the item t, or the loop over p, with the
\* text val for the value
ItemOut(val) ==
    <<"d","a","t","a","_","a","\n","_","t"," "," "," "," ">> \o val \o <<"\n">>
LoopOut(val) ==
    <<"d","a","t","a","_","a","\n","l","o","o","p","_","\n","_","p","\n">>
        \o val \o <<"\n">>
Wrote == w.pc = "done" /\ aux.wfail = ""
DoubleQuoted(str) == <<"\"">> \o str \o <<"\"">>

\* C24: a string value whose whole content matches the numeric grammar is
\* written in double quotes, as the value of an item and as a value of a
\* loop, and reading the text written gives the string again, not a number.
C24_NumericQuoted ==
    \A c \in {d \in StringCases : NumericText(d.s)} :
        /\ (round = 1 /\ Wrote /\ cif = ItemDoc(c.s)) => out = ItemOut(DoubleQuoted(c.s))
        /\ (round = 1 /\ Wrote /\ cif = LoopDoc(c.s) /\ heap = LoopHeap(c.s)) =>
               out = LoopOut(DoubleQuoted(c.s))
        /\ (round = 2 /\ res.done /\ first.cif = ItemDoc(c.s)) =>
               (res.cif /\ cif = ItemDoc(c.s))
        /\ (round = 2 /\ res.done /\ first.cif = LoopDoc(c.s)
                /\ first.heap = LoopHeap(c.s)) =>
               (res.cif /\ cif = LoopDoc(c.s) /\ heap = LoopHeap(c.s))
C24_Witness ==
    /\ round = 2 /\ res.done /\ first.cif = ItemDoc(<<"1",".","5">>)
    /\ input = ItemOut(DoubleQuoted(<<"1",".","5">>))
    /\ cif.Blocks[<<"a">>].Items[<<"t">>].k = "string"

\* the form the content str is to be written in: a semicolon text field for
\* a line break or both kinds of quote, single quotes for a double quote
\* alone, double quotes for a single quote alone
HasChar(str, S) == \E i \in 1..Len(str) : str[i] \in S
QuotingForm(str) ==
    IF HasChar(str, {"\n", "\r"}) \/ (HasChar(str, {"'"}) /\ HasChar(str, {"\""}))
    THEN <<"\n", ";">> \o str \o <<"\n", ";">>
    ELSE IF HasChar(str, {"\""}) THEN <<"'">> \o str \o <<"'">>
    ELSE DoubleQuoted(str)

\* C25: a string value with a line break, or with a single and a double
\* quote, is written as a semicolon text field whatever else it holds; one with
\* a double quote and no single quote is written in single quotes, one with
\* a single quote and no double quote in double quotes.
C25_QuotingForm ==
    \A c \in {d \in StringCases : HasChar(d.s, {"\n", "\r", "'", "\""})} :
        /\ (round = 1 /\ Wrote /\ cif = ItemDoc(c.s)) => out = ItemOut(QuotingForm(c.s))
        /\ (round = 1 /\ Wrote /\ cif = LoopDoc(c.s) /\ heap = LoopHeap(c.s)) =>
               out = LoopOut(QuotingForm(c.s))

\* C26: when a string value holds a character that is no line break and is
\* outside the printable set, Write returns an error, and the character is
\* not in the text the sink has taken.
Unprintable(r) == ~isPrintChar(r) /\ ~isNL(r)
C26_Unrepresentable ==
    \A c \in {d \in StringCases : \E i \in 1..Len(d.s) : Unprintable(d.s[i])} :
        (/\ round = 1 /\ w.pc = "done" /\ aux.wfail # "sink"
         /\ \/ cif = ItemDoc(c.s)
            \/ cif = LoopDoc(c.s) /\ heap = LoopHeap(c.s)) =>
            /\ w.ret.err # NilErr
            /\ \A i \in 1..Len(out) : ~Unprintable(out[i])

\* the tables of block b, and the number of loop_ lines in the text text
TablesOf(b) == {b.Loops[tag] : tag \in DOMAIN b.Loops}
LoopLines(text) ==
    Cardinality({i \in 1..(Len(text) - 5) :
                    /\ SubSeq(text, i, i + 5) = kwLoop \o <<"\n">>
                    /\ (i = 1 \/ text[i - 1] = "\n")})

\* C27: Write writes each table of a block of a Document Read returned once:
\* the tables writeBlock has written are tables of the block, no table is
\* among them twice, and when its loop ends they are all the tables of the
\* block, in whatever order the tags are taken; the text of a Write that
\* has returned has one loop_ line for each table of the Document.
C27_OneLoopPerTable ==
    /\ (round = 1 /\ w.pc = "loops") =>
          /\ \A i \in 1..Len(w.written) :
                /\ w.written[i] \in TablesOf(WBlock)
                /\ \A j \in 1..Len(w.written) : w.written[i] = w.written[j] => i = j
          /\ w.loops = {} => {w.written[i] : i \in 1..Len(w.written)} = TablesOf(WBlock)
    /\ (round = 1 /\ Wrote) => LoopLines(out) = Len(heap)
C27_Witness ==
    /\ round = 1 /\ Wrote /\ Len(heap) = 2 /\ LoopLines(out) = 2
    /\ DOMAIN cif.Blocks = {<<"a">>}
    /\ DOMAIN cif.Blocks[<<"a">>].Loops = {<<"t">>, <<"u">>, <<"v">>}

\* C28: a call of Read that runs while another call of Read runs returns
\* what it returns when it runs alone on the same text: the same error, and
\* an equal Document or none.
C28_Isolation ==
    (round = 3 /\ res.done /\ other.input # <<>>) =>
        /\ res = other.res
        /\ res.cif => DeepEqual(first.cif, first.heap, cif, heap)

\* C29: the scanner comes to the end of every text.  The state functions
\* run and the items returned are at most StepsPerChar for each character
\* of the text and for its end, so that no state function is run for ever
\* without a character being consumed, and the call of nextItem that ends
\* the scan returns the end of input.
C29_ScannerTerminates ==
    /\ aux.steps <= StepsPerChar * (Len(input) + 1)
    /\ p.pc = "done" => (p.t.typ = "EOF" /\ ~lx.panicked)
C29_Witness ==
    /\ p.pc = "done" /\ p.t.typ = "EOF" /\ input = cifSmall
    /\ lx.pos = Len(input) /\ aux.steps > Len(input)

\* the whole part of a float, its leading zeros dropped (empty for a float
\* below one)
WholePart(f) ==
    LET padded == Zeros(IF f.e < 0 THEN 0 - f.e ELSE 0) \o f.digs \o
                  Zeros(IF f.e > 0 THEN f.e ELSE 0)
    IN  StripLeadingZeros(SubSeq(padded, 1, Len(padded) + (IF f.e < 0 THEN f.e ELSE 0)))
FitsInt(f) ==
    \/ Len(WholePart(f)) < 19
    \/ /\ Len(WholePart(f)) = 19
       /\ DigitsLeq(WholePart(f), IF f.neg THEN MinInt64 ELSE MaxInt64)
IntZero(r) == r.k = "int" /\ r.digs = <<"0">> /\ ~r.neg
FloatZero(r) == r.k = "float" /\ r.digs = <<"0">> /\ r.e = 0 /\ ~r.neg

Printable(str) == \A i \in 1..Len(str) : isPrintChar(str[i])
C31_ScalarReadable ==
    \A c \in {d \in StringCases : Printable(d.s)} :
        (round = 2 /\ res.done /\ first.cif = ItemDoc(c.s)) =>
            (res.cif /\ res.err = NilErr /\ cif = ItemDoc(c.s))
\* the shape of an integer: an optional sign, then one or more digits; the
\* shape of a float: a digit in the mantissa, and a digit in the exponent
\* when there is an exponent mark
IntegerShape(str) ==
    /\ Unsigned(str) # <<>>
    /\ \A i \in 1..Len(Unsigned(str)) : isDigit(Unsigned(str)[i])
FloatShape(str) ==
    LET mark == {i \in 1..Len(str) : str[i] \in {"e", "E"}}
        mant == IF mark = {} THEN str
                ELSE SubSeq(str, 1, (CHOOSE i \in mark : \A j \in mark : i <= j) - 1)
        expo == IF mark = {} THEN <<>>
                ELSE SubSeq(str, (CHOOSE i \in mark : \A j \in mark : i <= j) + 1, Len(str))
    IN  /\ HasChar(mant, Digits)
        /\ mark # {} => HasChar(expo, Digits)

\* C32: every item the scanner delivers as an Integer has the shape of an
\* integer and every item it delivers as a Float has the shape of a float,
\* so that parseValue does not fail on it for its shape.
C32_NumericShape ==
    /\ p.t.typ = "DataInteger" => IntegerShape(p.t.val)
    /\ p.t.typ = "DataFloat" => FloatShape(p.t.val)
    /\ res.err.msg = "Could not parse '%s' as integer: %s" => IntegerShape(res.err.name)
    /\ res.err.msg = "Could not parse '%s' as float: %s" => FloatShape(res.err.name)
\* the longest run of non-blank characters str begins with
RECURSIVE NonBlankRun(_)
NonBlankRun(str) ==
    IF str # <<>> /\ isNonBlankChar(Head(str))
    THEN <<Head(str)>> \o NonBlankRun(Tail(str)) ELSE <<>>
ValueItemTypes == {"DataOmitted", "DataMissing", "DataInteger", "DataFloat", "DataString"}
\* the Document is as Read returned it: the caller has replaced no value
AsRead ==
    \A b \in DOMAIN cif.Blocks : \A tag \in DOMAIN cif.Blocks[b].Items :
        cif.Blocks[b].Items[tag] # cifOther

\* C33 as stated: a value that begins with a sign or a digit and goes on
\* with any character that is neither white space, the end of the text nor
\* a continuation of the number is one String spanning the value up to the
\* next blank, and the scanner reports no error.
C33_FallbackAnyChar ==
    \A c \in FallbackCases : \A rest \in {<<>>, <<"\n">>} :
        (round = 1 /\ input = FallbackText(c, rest)) =>
            /\ aux.errf = NoItem
            /\ p.t.typ \in ValueItemTypes => (p.t.typ = "DataString" /\ p.t.val = c.run)
            /\ (res.done /\ AsRead) => (res.cif /\ cif = ItemDoc(c.run))

\* C33: a value that begins with a sign or a digit and goes on with a
\* non-blank character that cannot continue the number is delivered as one
\* String, spanning the value from its start to the end of its run of
\* non-blank characters; the scanner reports no error before it, and none
\* after it when the run ends at white space or at the end of the text (then
\* Read returns the Document with that string).
C33_Fallback ==
    \A c \in {d \in FallbackCases : isNonBlankChar(d.run[d.at])} :
        \A rest \in {<<>>, <<"\n">>} :
            (round = 1 /\ input = FallbackText(c, rest)) =>
                /\ p.t.typ \in ValueItemTypes =>
                      (p.t.typ = "DataString" /\ p.t.val = NonBlankRun(c.run))
                /\ aux.errf # NoItem =>
                      /\ NonBlankRun(c.run) # c.run
                      /\ p.t.typ \notin {"DataBlockStart", "DataTag", "nil"}
                /\ (res.done /\ AsRead /\ NonBlankRun(c.run) = c.run) =>
                      (res.cif /\ res.err = NilErr /\ cif = ItemDoc(c.run))
C33_Witness ==
    /\ round = 1 /\ res.done /\ res.cif
    /\ input = FallbackText([run |-> <<"1",".","5",".","3">>, at |-> 4], <<>>)
    /\ cif = ItemDoc(<<"1",".","5",".","3">>)
\* the strings the Document holds: the values of its items and the cells of
\* its tables
StoredStrings ==
    UNION {{cif.Blocks[b].Items[tag].s : tag \in DOMAIN cif.Blocks[b].Items} :
               b \in DOMAIN cif.Blocks}
        \cup UNION {UNION {{heap[i].Values[j].vals[k].s : k \in 1..Len(heap[i].Values[j].vals)} :
                               j \in 1..Len(heap[i].Values)} : i \in 1..Len(heap)}

\* C34: when a semicolon text field holds a character outside the printable
\* set that is no line break, the scanner delivers an Error item and Read
\* returns an error and no Document; no string of the Document being built
\* ever holds the character.
C34_TextFieldChar ==
    (round = 1 /\ input \in BadFieldInputs) =>
        /\ res.done => (~res.cif /\ res.err # NilErr /\ aux.errfRet.typ = "Error")
        /\ \A str \in StoredStrings : ~HasChar(str, {"^A"})
\* C35: the kind a column of a table resolves to (strings, ints or floats)
\* does not depend on the order of the rows: the text with two rows of the
\* table in each other's place gives every column the same kind.
C35_RowOrder ==
    (round = 3 /\ aux.variant = "rows" /\ res.done /\ res.cif /\ first.ok) =>
        /\ Len(heap) = Len(first.heap)
        /\ \A i \in 1..Len(heap) :
              /\ Len(heap[i].Values) = Len(first.heap[i].Values)
              /\ \A j \in 1..Len(heap[i].Values) :
                    heap[i].Values[j].k = first.heap[i].Values[j].k
\* C36: in every table of a Document Read returned, Columns maps the tags of
\* the table one to one onto 0 .. n - 1, n being the number of columns in
\* Values: no two tags have one index and every index has a tag.
C36_ColumnsBijective ==
    (res.done /\ res.cif /\ w.pc = "idle") =>
        \A i \in 1..Len(heap) :
            LET lp == heap[i]
                n == Len(lp.Values)
            IN  /\ Cardinality(DOMAIN lp.Columns) = n
                /\ \A tag \in DOMAIN lp.Columns : lp.Columns[tag] \in 0..(n - 1)
                /\ \A t1, t2 \in DOMAIN lp.Columns :
                      lp.Columns[t1] = lp.Columns[t2] => t1 = t2
                /\ \A j \in 0..(n - 1) : \E tag \in DOMAIN lp.Columns : lp.Columns[tag] = j
\* C37: every call of Read that has returned has returned either a Document
\* and a nil error or no Document and an error, never neither and never
\* both; emit never panics, so the only panic parse recovers from is the
\* builder's own error.
C37_DocumentOrError ==
    /\ ~lx.panicked
    /\ res.done =>
          /\ res.cif <=> (res.err = NilErr)
          /\ res.err # NilErr => res.err.type = "cifError"
C37_Witness ==
    /\ round = 1 /\ res.done /\ ~res.cif /\ res.err.type = "cifError"
    /\ aux.errfRet.typ = "Error"
\* the items of str that open or close a save frame
IsFrameMark(typ) == typ \in {"SaveFrameStart", "SaveFrameEnd"}
FrameMarks(str) == SelectSeq(str, IsFrameMark)

\* C38: in the items the scanner returns, SaveFrameStart and SaveFrameEnd
\* alternate, a SaveFrameStart first, and between a SaveFrameStart and the
\* SaveFrameEnd that follows it there is no DataBlockStart and no other
\* SaveFrameStart.
C38_FramesBracketed ==
    /\ \A k \in 1..Len(FrameMarks(aux.marks)) :
          FrameMarks(aux.marks)[k] = (IF k % 2 = 1 THEN "SaveFrameStart" ELSE "SaveFrameEnd")
    /\ \A i, j \in 1..Len(aux.marks) :
          (/\ i < j
           /\ aux.marks[i] = "SaveFrameStart" /\ aux.marks[j] = "SaveFrameEnd"
           /\ \A k \in (i + 1)..(j - 1) : aux.marks[k] # "SaveFrameEnd") =>
              j = i + 1
C38_Witness ==
    /\ p.pc = "done"
    /\ aux.marks = <<"DataBlockStart", "SaveFrameStart", "SaveFrameEnd",
                     "SaveFrameStart", "SaveFrameEnd", "DataBlockStart">>

(***************************************************************************)
(* C39. Continuation stack discipline: on every input the scanner never    *)
(* calls pop while its stack of continuations is empty, so the error "BUG  *)
(* in lexer: no states to pop." is never produced, and the stack never     *)
(* holds more than 3 states, however long the input is.                    *)
(***************************************************************************)
C39_StackDiscipline ==
    /\ ~lx.underflow
    /\ lx.emitted.val # <<"BUG in lexer: no states to pop.">>
    /\ Len(lx.stack) <= 3

\* the stack is three deep at a data item that follows an earlier tag, whose
\* continuations were pushed and popped before
C39_Witness ==
    /\ Len(lx.stack) = 3
    /\ ~lx.underflow
    /\ \E i \in 1..lx.start : input[i] = "_"


(***************************************************************************)
(* C40. At most one token is pending at any time: on every input, no state *)
(* of the scanner calls emit while the token emitted before has not been   *)
(* returned by nextItem, so the panic "BUG in lexer: a state may only emit *)
(* a single token" is never raised.                                        *)
(***************************************************************************)
C40_SinglePending == ~lx.panicked

\* nextItem has returned a tag and the value after it has been emitted and
\* waits to be returned
C40_Witness ==
    /\ p.pc = "scan" /\ p.t.typ = "DataTag"
    /\ lx.emitted.typ \in {"DataInteger", "DataFloat", "DataString"}
    /\ ~lx.panicked

=============================================================================
